---------------------------- MODULE Spec2Model ----------------------------
(***************************************************************************)
(* A model of the LaTeX-to-OMML equation parser of                        *)
(* skills/docx-template-replacer/scripts/md_to_docx_converter.py          *)
(* (class LatexToOmmlConverter).  A string is a sequence of one-character *)
(* strings; the element tree is a tree of records; the recursion of       *)
(* _parse_expr is an explicit stack of invocation frames.                 *)
(***************************************************************************)
EXTENDS Integers, Sequences, FiniteSets, TLC

VARIABLES
    pc,       \* "idle" | "parsing" | "done": where convert() stands
    latex,    \* the argument given to convert()
    stack,    \* the active invocations of _parse_expr, outermost first
    result,   \* what convert() returned: None, or the oMath element
    conv,     \* the instance whose latex_converter runs convert(): self
    greek_maps,  \* greek_map of the latex_converter of each instance
    history,  \* the calls of convert() that have returned
    para_id_counter,  \* para_id_counter of each MarkdownToDocxConverter
    issued,   \* the paragraph IDs each MarkdownToDocxConverter handed out
    xml,      \* a call of replace_text_in_xml: the file, the locals, the return
    docx,     \* a call of replace_in_docx: the archives, the temp_dir, the return
    found,    \* a call of search_multi: the locals, the return
    scan      \* a call of _generate_document_xml: lines, i, body

\* the calls of the other functions
apart == <<xml, docx, found, scan>>

\* what the steps of _parse_expr neither read into nor write
outside == <<conv, greek_maps, history, para_id_counter, issued, apart>>

vars ==
    <<pc, latex, stack, result, conv, greek_maps, history, para_id_counter, issued,
      xml, docx, found, scan>>

----------------------------------------------------------------------------
(* Characters and strings *)

BS == "\\"

Lower ==
    {"a", "b", "c", "d", "e", "f", "g", "h", "i", "j", "k", "l", "m",
     "n", "o", "p", "q", "r", "s", "t", "u", "v", "w", "x", "y", "z"}

Upper ==
    {"A", "B", "C", "D", "E", "F", "G", "H", "I", "J", "K", "L", "M",
     "N", "O", "P", "Q", "R", "S", "T", "U", "V", "W", "X", "Y", "Z"}

Digit ==
    {"0", "1", "2", "3", "4", "5", "6", "7", "8", "9"}

\* [a-zA-Z]
Letter == Lower \cup Upper

\* [a-zA-Z0-9]
AlNum == Letter \cup Digit

\* [a-zA-Z0-9*]
AlNumStar == AlNum \cup {"*"}

\* [a-zA-Z0-9\.]
TextChar == AlNum \cup {"."}

\* what str.strip() removes and \s matches
Whitespace == {" ", "\t", "\n", "\r", "\f"}

\* the characters of '=+-*/()[]{},;: '
OperatorChars ==
    {"=", "+", "-", "*", "/", "(", ")", "[", "]", "{", "}", ",", ";", ":", " "}

Min(S) == CHOOSE x \in S : \A y \in S : x <= y

Max(S) == CHOOSE x \in S : \A y \in S : x >= y

\* s[n:] of Python, n counted from 0
Drop(s, n) == SubSeq(s, n + 1, Len(s))

\* s.startswith(p, at - 1)
StartsAt(s, p, at) ==
    /\ at + Len(p) - 1 <= Len(s)
    /\ SubSeq(s, at, at + Len(p) - 1) = p

StartsWith(s, p) == StartsAt(s, p, 1)

EndsWith(s, p) ==
    /\ Len(p) <= Len(s)
    /\ SubSeq(s, Len(s) - Len(p) + 1, Len(s)) = p

\* str.strip()
Strip(s) ==
    LET I == {i \in 1..Len(s) : s[i] \notin Whitespace}
    IN  IF I = {} THEN <<>> ELSE SubSeq(s, Min(I), Max(I))

\* the first position >= from whose character is c, or 0
FindChar(s, c, from) ==
    LET I == {i \in from..Len(s) : s[i] = c}
    IN  IF I = {} THEN 0 ELSE Min(I)

\* the first position >= from where p occurs (str.find), or 0
FindSub(s, p, from) ==
    LET I == {i \in from..Len(s) : StartsAt(s, p, i)}
    IN  IF I = {} THEN 0 ELSE Min(I)

\* the first position >= from whose character is not in Class: the end of a
\* greedy run [Class]* that starts at from
SpanEnd(s, Class, from) ==
    LET J == {j \in from..Len(s) : s[j] \notin Class}
    IN  IF J = {} THEN Len(s) + 1 ELSE Min(J)

\* str.split(sep): the pieces between the non-overlapping occurrences of sep
RECURSIVE Split(_, _)
Split(s, sep) ==
    LET k == FindSub(s, sep, 1)
    IN  IF k = 0
        THEN <<s>>
        ELSE <<SubSeq(s, 1, k - 1)>> \o Split(Drop(s, k - 1 + Len(sep)), sep)

\* [x.strip() for x in xs]
StripAll(xs) == [i \in 1..Len(xs) |-> Strip(xs[i])]

\* [x.strip() for x in xs if x.strip()]
StripNonBlank(xs) == StripAll(SelectSeq(xs, LAMBDA x : Strip(x) # <<>>))

RECURSIVE Flatten(_)
Flatten(xss) ==
    IF xss = <<>> THEN <<>> ELSE Head(xss) \o Flatten(Tail(xss))

----------------------------------------------------------------------------
(* The Greek symbol table *)

greek_table ==
    { <<<<"a", "l", "p", "h", "a">>, <<"α">>>>,
      <<<<"b", "e", "t", "a">>, <<"β">>>>,
      <<<<"g", "a", "m", "m", "a">>, <<"γ">>>>,
      <<<<"d", "e", "l", "t", "a">>, <<"δ">>>>,
      <<<<"e", "p", "s", "i", "l", "o", "n">>, <<"ε">>>>,
      <<<<"z", "e", "t", "a">>, <<"ζ">>>>,
      <<<<"e", "t", "a">>, <<"η">>>>,
      <<<<"t", "h", "e", "t", "a">>, <<"θ">>>>,
      <<<<"i", "o", "t", "a">>, <<"ι">>>>,
      <<<<"k", "a", "p", "p", "a">>, <<"κ">>>>,
      <<<<"l", "a", "m", "b", "d", "a">>, <<"λ">>>>,
      <<<<"m", "u">>, <<"μ">>>>,
      <<<<"n", "u">>, <<"ν">>>>,
      <<<<"x", "i">>, <<"ξ">>>>,
      <<<<"p", "i">>, <<"π">>>>,
      <<<<"r", "h", "o">>, <<"ρ">>>>,
      <<<<"s", "i", "g", "m", "a">>, <<"σ">>>>,
      <<<<"t", "a", "u">>, <<"τ">>>>,
      <<<<"u", "p", "s", "i", "l", "o", "n">>, <<"υ">>>>,
      <<<<"p", "h", "i">>, <<"φ">>>>,
      <<<<"c", "h", "i">>, <<"χ">>>>,
      <<<<"p", "s", "i">>, <<"ψ">>>>,
      <<<<"o", "m", "e", "g", "a">>, <<"ω">>>>,
      <<<<"G", "a", "m", "m", "a">>, <<"Γ">>>>,
      <<<<"D", "e", "l", "t", "a">>, <<"Δ">>>>,
      <<<<"T", "h", "e", "t", "a">>, <<"Θ">>>>,
      <<<<"L", "a", "m", "b", "d", "a">>, <<"Λ">>>>,
      <<<<"X", "i">>, <<"Ξ">>>>,
      <<<<"P", "i">>, <<"Π">>>>,
      <<<<"S", "i", "g", "m", "a">>, <<"Σ">>>>,
      <<<<"P", "h", "i">>, <<"Φ">>>>,
      <<<<"P", "s", "i">>, <<"Ψ">>>>,
      <<<<"O", "m", "e", "g", "a">>, <<"Ω">>>> }

\* a lookup that knows the lowercase names only
InGreekMapLowercaseOnly(name) ==
    /\ name # <<>>
    /\ name[1] \in Lower
    /\ \E e \in greek_maps[conv] : e[1] = name

\* name in self.greek_map
InGreekMap(name) == \E e \in greek_maps[conv] : e[1] = name

\* self.greek_map[name]
greek_map(name) == (CHOOSE e \in greek_maps[conv] : e[1] = name)[2]

----------------------------------------------------------------------------
(* Regular expressions.  A pattern is matched at the start of the string  *)
(* (re.match).  A position is an index into the string; position 0 means  *)
(* that the match has already failed.                                      *)

NoMatch == [ok |-> FALSE, end |-> 0, g |-> <<>>]

\* a match object: end is m.end(), g[i] is m.group(i)
Match(end, g) == [ok |-> TRUE, end |-> end, g |-> g]

\* the literal p at position at: the position after it
Lit(s, p, at) == IF at > 0 /\ StartsAt(s, p, at) THEN at + Len(p) ELSE 0

\* one character of Class at position at: the position after it
One(s, Class, at) ==
    IF at > 0 /\ at <= Len(s) /\ s[at] \in Class THEN at + 1 ELSE 0

\* [Class]+ at position at, greedy: the position after the run
Many1(s, Class, at) ==
    IF at > 0 /\ at <= Len(s) /\ s[at] \in Class
    THEN SpanEnd(s, Class, at)
    ELSE 0

\* [^c]+ at position at, then c: the position of that c
UpTo(s, c, at) ==
    IF at = 0
    THEN 0
    ELSE LET k == FindChar(s, c, at) IN IF k > at THEN k ELSE 0

FuncNames ==
    << <<"c", "o", "s">>, <<"s", "i", "n">>, <<"t", "a", "n">>,
       <<"l", "o", "g">>, <<"l", "n">>, <<"e", "x", "p">> >>

\* r'\\(cos|sin|tan|log|ln|exp)\s*\(([^)]+)\)'
FuncParenMatch(s) ==
    LET N == {i \in 1..Len(FuncNames) :
                StartsWith(s, <<BS>>) /\ StartsAt(s, FuncNames[i], 2)}
    IN  IF N = {}
        THEN NoMatch
        ELSE LET name == FuncNames[Min(N)]
                 a == SpanEnd(s, Whitespace, 2 + Len(name))
                 b == Lit(s, <<"(">>, a)
                 c == UpTo(s, ")", b)
             IN  IF c > 0
                 THEN Match(c, <<name, SubSeq(s, b, c - 1)>>)
                 ELSE NoMatch

\* r'\(([^)]+)\)'
ParenMatch(s) ==
    LET b == Lit(s, <<"(">>, 1)
        c == UpTo(s, ")", b)
    IN  IF c > 0 THEN Match(c, <<SubSeq(s, b, c - 1)>>) ELSE NoMatch

BeginBmatrix ==
    <<BS, "b", "e", "g", "i", "n", "{", "b", "m", "a", "t", "r", "i", "x", "}">>

EndBmatrix ==
    <<BS, "e", "n", "d", "{", "b", "m", "a", "t", "r", "i", "x", "}">>

BeginCases ==
    <<BS, "b", "e", "g", "i", "n", "{", "c", "a", "s", "e", "s", "}">>

EndCases ==
    <<BS, "e", "n", "d", "{", "c", "a", "s", "e", "s", "}">>

\* r'\\begin\{env\}(.*?)\\end\{env\}' with re.DOTALL
EnvMatch(s, begin, end) ==
    LET a == Lit(s, begin, 1)
        k == IF a > 0 THEN FindSub(s, end, a) ELSE 0
    IN  IF k > 0
        THEN Match(k + Len(end) - 1, <<SubSeq(s, a, k - 1)>>)
        ELSE NoMatch

\* r'\\begin\{bmatrix\}(.*?)\\end\{bmatrix\}'
MatrixMatch(s) == EnvMatch(s, BeginBmatrix, EndBmatrix)

\* r'\\begin\{cases\}(.*?)\\end\{cases\}'
CasesMatch(s) == EnvMatch(s, BeginCases, EndCases)

\* r'\\frac\{([^}]+)\}\{([^}]+)\}'
FracMatch(s) ==
    LET a == Lit(s, <<BS, "f", "r", "a", "c", "{">>, 1)
        b == UpTo(s, "}", a)
        c == Lit(s, <<"}", "{">>, b)
        d == UpTo(s, "}", c)
    IN  IF d > 0
        THEN Match(d, <<SubSeq(s, a, b - 1), SubSeq(s, c, d - 1)>>)
        ELSE NoMatch

\* r'\\([a-zA-Z]+)' followed by the separator sep, at position 1: the macro
\* name and the position after the separator
MacroThen(s, sep) ==
    LET a == Lit(s, <<BS>>, 1)
        b == Many1(s, Letter, a)
    IN  [name |-> IF b > 0 THEN SubSeq(s, a, b - 1) ELSE <<>>,
         next |-> Lit(s, sep, b)]

\* r'([a-zA-Z0-9])' followed by the separator sep, at position 1
CharThen(s, sep) ==
    LET a == One(s, AlNum, 1)
    IN  [name |-> IF a > 0 THEN SubSeq(s, 1, 1) ELSE <<>>,
         next |-> Lit(s, sep, a)]

\* a braced group whose capture keeps the braces
BracedAtKeepsBraces(s, at) ==
    LET a == Lit(s, <<"{">>, at)
        b == UpTo(s, "}", a)
    IN  [ok |-> b > 0, g |-> IF b > 0 THEN SubSeq(s, at, b) ELSE <<>>,
         end |-> b]

\* r'\{([^}]+)\}' at position at: the group and m.end()
BracedAt(s, at) ==
    LET a == Lit(s, <<"{">>, at)
        b == UpTo(s, "}", a)
    IN  [ok |-> b > 0, g |-> IF b > 0 THEN SubSeq(s, a, b - 1) ELSE <<>>,
         end |-> b]

\* r'([Class])' at position at: the group and m.end()
CharAt(s, Class, at) ==
    LET a == One(s, Class, at)
    IN  [ok |-> a > 0, g |-> IF a > 0 THEN SubSeq(s, at, at) ELSE <<>>,
         end |-> a - 1]

\* r'\\([a-zA-Z]+)' at position at: the group and m.end()
MacroAt(s, at) ==
    LET a == Lit(s, <<BS>>, at)
        b == Many1(s, Letter, a)
    IN  [ok |-> b > 0, g |-> IF b > 0 THEN SubSeq(s, a, b - 1) ELSE <<>>,
         end |-> b - 1]

\* the first pattern of a list of tried patterns that matched
FirstMatch(ms) ==
    LET I == {i \in 1..Len(ms) : ms[i].ok}
    IN  IF I = {} THEN NoMatch ELSE ms[Min(I)]

\* base, then a subscript, then '^' and a superscript
SubSupOf(base, sub, sup) ==
    IF base.next > 0 /\ sub.ok /\ sup.ok
    THEN Match(sup.end, <<base.name, sub.g, sup.g>>)
    ELSE NoMatch

\* combined_patterns, in the order they are tried
CombinedMatch(s) ==
    LET mb == MacroThen(s, <<"_">>)
        cb == CharThen(s, <<"_">>)
        \* the subscript forms, each with the '^' that follows it
        brace(b) == BracedAt(s, b.next)
        char(b)  == CharAt(s, AlNum, b.next)
        macro(b) == MacroAt(s, b.next)
        hat(m)   == IF m.ok THEN Lit(s, <<"^">>, m.end + 1) ELSE 0
    IN  FirstMatch(<<
          \* r'\\([a-zA-Z]+)_\{([^}]+)\}\^\{([^}]+)\}'
          SubSupOf(mb, brace(mb), BracedAt(s, hat(brace(mb)))),
          \* r'\\([a-zA-Z]+)_([a-zA-Z0-9])\^([a-zA-Z0-9*])'
          SubSupOf(mb, char(mb), CharAt(s, AlNumStar, hat(char(mb)))),
          \* r'([a-zA-Z0-9])_\\([a-zA-Z]+)\^\{([^}]+)\}'
          SubSupOf(cb, macro(cb), BracedAt(s, hat(macro(cb)))),
          \* r'([a-zA-Z0-9])_\\([a-zA-Z]+)\^([a-zA-Z0-9*])'
          SubSupOf(cb, macro(cb), CharAt(s, AlNumStar, hat(macro(cb)))),
          \* r'([a-zA-Z0-9])_\{([^}]+)\}\^\{([^}]+)\}'
          SubSupOf(cb, brace(cb), BracedAt(s, hat(brace(cb)))),
          \* r'([a-zA-Z0-9])_([a-zA-Z0-9])\^([a-zA-Z0-9*])'
          SubSupOf(cb, char(cb), CharAt(s, AlNumStar, hat(char(cb)))) >>)

\* base, then one script
ScriptOf(base, script) ==
    IF base.next > 0 /\ script.ok
    THEN Match(script.end, <<base.name, script.g>>)
    ELSE NoMatch

\* sub_patterns, in the order they are tried
SubMatch(s) ==
    LET mb == MacroThen(s, <<"_">>)
        cb == CharThen(s, <<"_">>)
    IN  FirstMatch(<<
          \* r'\\([a-zA-Z]+)_\{([^}]+)\}'
          ScriptOf(mb, BracedAt(s, mb.next)),
          \* r'\\([a-zA-Z]+)_([a-zA-Z0-9])'
          ScriptOf(mb, CharAt(s, AlNum, mb.next)),
          \* r'([a-zA-Z0-9])_\\([a-zA-Z]+)'
          ScriptOf(cb, MacroAt(s, cb.next)),
          \* r'([a-zA-Z0-9])_\{([^}]+)\}'
          ScriptOf(cb, BracedAt(s, cb.next)),
          \* r'([a-zA-Z0-9])_([a-zA-Z0-9])'
          ScriptOf(cb, CharAt(s, AlNum, cb.next)) >>)

\* sup_patterns, in the order they are tried
SupMatch(s) ==
    LET mb == MacroThen(s, <<"^">>)
        cb == CharThen(s, <<"^">>)
    IN  FirstMatch(<<
          \* r'\\([a-zA-Z]+)\^\{([^}]+)\}'
          ScriptOf(mb, BracedAt(s, mb.next)),
          \* r'\\([a-zA-Z]+)\^([a-zA-Z0-9*])'
          ScriptOf(mb, CharAt(s, AlNumStar, mb.next)),
          \* r'([a-zA-Z0-9])\^\{([^}]+)\}'
          ScriptOf(cb, BracedAt(s, cb.next)),
          \* r'([a-zA-Z0-9])\^([a-zA-Z0-9*])'
          ScriptOf(cb, CharAt(s, AlNumStar, cb.next)) >>)

\* r'\\([a-zA-Z]+)', taken only when the name is in the Greek table
GreekMatch(s) ==
    LET m == MacroAt(s, 1)
    IN  IF m.ok /\ InGreekMap(m.g) THEN Match(m.end, <<m.g>>) ELSE NoMatch

\* an operator branch that also takes the backslash
OperatorMatchBackslash(s) ==
    IF s # <<>> /\ s[1] \in OperatorChars \cup {BS}
    THEN Match(1, <<SubSeq(s, 1, 1)>>)
    ELSE NoMatch

\* expr[0] in '=+-*/()[]{},;: '
OperatorMatch(s) ==
    IF s # <<>> /\ s[1] \in OperatorChars
    THEN Match(1, <<SubSeq(s, 1, 1)>>)
    ELSE NoMatch

\* a text run of one character
TextMatchOneChar(s) ==
    IF One(s, TextChar, 1) > 0 THEN Match(1, <<SubSeq(s, 1, 1)>>) ELSE NoMatch

\* r'([a-zA-Z0-9\.]+)'
TextMatch(s) ==
    LET e == Many1(s, TextChar, 1)
    IN  IF e > 0 THEN Match(e - 1, <<SubSeq(s, 1, e - 1)>>) ELSE NoMatch

----------------------------------------------------------------------------
(* The element tree.  Every element is a record of the same shape: its    *)
(* tag, its text or m:val attribute, its w:hint attribute, its children.   *)

None == [tag |-> "None", text |-> <<>>, hint |-> "", kids |-> <<>>]

\* an element with children
El(tag, kids) == [tag |-> tag, text |-> <<>>, hint |-> "", kids |-> kids]

\* an element that only carries an m:val attribute
Val(tag, val) == [tag |-> tag, text |-> val, hint |-> "", kids |-> <<>>]

\* _ctrl_pr(): the control-properties marker
ctrl_pr == [tag |-> "ctrlPr", text |-> <<>>, hint |-> "eastAsia", kids |-> <<>>]

\* _math_run(text, hint): m:r holding m:t = text, w:rFonts w:hint = hint
math_run(text, hint) == [tag |-> "r", text |-> text, hint |-> hint, kids |-> <<>>]

\* a run that holds the glyph of a Greek name without the eastAsia hint
GlyphRunDefaultHint(val) ==
    IF InGreekMap(val)
    THEN math_run(greek_map(val), "default")
    ELSE math_run(val, "default")

\* the base, subscript or superscript of a script node: the glyph of a Greek
\* name with the eastAsia hint, else the captured text with the default hint
GlyphRun(val) ==
    IF InGreekMap(val)
    THEN math_run(greek_map(val), "eastAsia")
    ELSE math_run(val, "default")

\* m:d with its m:dPr (begChr, endChr, ctrlPr), its m:e and its ctrlPr
Delimited(begChr, endChr, inner) ==
    El("d", << El("dPr", <<Val("begChr", begChr), Val("endChr", endChr), ctrl_pr>>),
               El("e", inner \o <<ctrl_pr>>),
               ctrl_pr >>)

\* a function call whose parentheses are literal runs around the argument
FuncNodesLiteralParens(func_name, inner) ==
    <<math_run(func_name, "default"), math_run(<<"(">>, "default")>>
    \o inner \o <<math_run(<<")">>, "default")>>

\* the nodes the function-call branch appends to parent
FuncNodes(func_name, inner) ==
    <<math_run(func_name, "default"), Delimited(<<"(">>, <<")">>, inner)>>

\* a test that only looks for the fraction macro
IsComplexFracOnly(inner) == FindSub(inner, <<BS, "f", "r", "a", "c">>, 1) > 0

\* '\\frac' in inner or '\\' in inner
IsComplex(inner) == \E i \in 1..Len(inner) : inner[i] = BS

\* the nodes the parenthesis branch appends to parent
ParenNodes(innerText, inner) ==
    IF IsComplex(innerText)
    THEN <<Delimited(<<"(">>, <<")">>, inner)>>
    ELSE <<math_run(<<"(">>, "default")>> \o inner \o <<math_run(<<")">>, "default")>>

\* rows that keep the blank segments
EnvRowsKeepBlank(content) == StripAll(Split(Strip(content), <<BS, BS>>))

\* rows = [r.strip() for r in content.split('\\\\') if r.strip()]
EnvRows(content) == StripNonBlank(Split(Strip(content), <<BS, BS>>))

\* cells = [c.strip() for c in row.split('&')], for every row
MatrixCells(content) ==
    LET rows == EnvRows(content)
    IN  [r \in 1..Len(rows) |-> StripAll(Split(rows[r], <<"&">>))]

\* m:mPr: one column definition (count 1, centred), plcHide, ctrlPr
MatrixPr ==
    El("mPr", << El("mcs", << El("mc", << El("mcPr",
                     <<Val("count", <<"1">>), Val("mcJc", <<"c", "e", "n", "t", "e", "r">>)>>) >>) >>),
                 Val("plcHide", <<"1">>),
                 ctrl_pr >>)

\* the nodes the matrix branch appends to parent; cells[r][c] is the parse of
\* the cell text of row r, column c
MatrixNodes(cells) ==
    LET cell(r, c) == El("e", cells[r][c] \o <<ctrl_pr>>)
        mr(r) == El("mr", [c \in 1..Len(cells[r]) |-> cell(r, c)])
        m == El("m", <<MatrixPr>> \o [r \in 1..Len(cells) |-> mr(r)])
    IN  <<Delimited(<<"[">>, <<"]">>, <<m>>)>>

\* a row that is parsed whole
CasesPartWholeRow(row) == row

\* the text of a cases row that is parsed: the part before the first '&'
CasesPart(row) ==
    IF FindChar(row, "&", 1) > 0 THEN Strip(Split(row, <<"&">>)[1]) ELSE row

\* the texts parsed for the rows of a cases block
CasesParts(content) ==
    LET rows == EnvRows(content)
    IN  [i \in 1..Len(rows) |-> CasesPart(rows[i])]

\* the nodes the cases branch appends to parent; parts[i] is the parse of
\* row i, and a one-space run stands before every row but the first
CasesNodes(parts) ==
    LET row(i) == (IF i > 1 THEN <<math_run(<<" ">>, "default")>> ELSE <<>>) \o parts[i]
    IN  <<Delimited(<<"{">>, <<>>, Flatten([i \in 1..Len(parts) |-> row(i)]))>>

\* the nodes the fraction branch appends to parent: m:f, and a ctrlPr that
\* goes to parent (parent.append), not to m:f
FracNodes(num, den) ==
    << El("f", << El("fPr", <<ctrl_pr>>),
                  El("num", num \o <<ctrl_pr>>),
                  El("den", den \o <<ctrl_pr>>) >>),
       ctrl_pr >>

\* the nodes the combined sub+sup branch appends to parent
SubSupNodes(base, sub_val, sup_val) ==
    << El("sSubSup", << El("sSubSupPr", <<ctrl_pr>>),
                        El("e", <<GlyphRun(base), ctrl_pr>>),
                        El("sub", <<GlyphRun(sub_val), ctrl_pr>>),
                        El("sup", <<GlyphRun(sup_val), ctrl_pr>>),
                        ctrl_pr >>) >>

\* a subscript branch that makes a run of every character of the subscript
SubNodesCharRuns(base, sub_val) ==
    << El("sSub", << El("sSubPr", <<ctrl_pr>>),
                     El("e", <<GlyphRun(base), ctrl_pr>>),
                     El("sub", [k \in 1..Len(sub_val) |->
                                   math_run(<<sub_val[k]>>, "default")] \o <<ctrl_pr>>),
                     ctrl_pr >>) >>

\* the nodes the subscript branch appends to parent
SubNodes(base, sub_val) ==
    << El("sSub", << El("sSubPr", <<ctrl_pr>>),
                     El("e", <<GlyphRun(base), ctrl_pr>>),
                     El("sub", <<GlyphRun(sub_val), ctrl_pr>>),
                     ctrl_pr >>) >>

\* the nodes the superscript branch appends to parent
SupNodes(base, sup_val) ==
    << El("sSup", << El("sSupPr", <<ctrl_pr>>),
                     El("e", <<GlyphRun(base), ctrl_pr>>),
                     El("sup", <<GlyphRun(sup_val), ctrl_pr>>),
                     ctrl_pr >>) >>

\* the node the Greek branch appends to parent
GreekNodes(name) == <<math_run(greek_map(name), "eastAsia")>>

\* the node the operator branch appends to parent
OperatorNodes(expr) == <<math_run(SubSeq(expr, 1, 1), "default")>>

\* the node the text branch appends to parent
TextNodes(text) == <<math_run(text, "default")>>

----------------------------------------------------------------------------
(* _parse_expr: the recognizers in the order the code tries them *)

FUNC == 1
PAREN == 2
MATRIX == 3
CASES == 4
FRAC == 5
SUBSUP == 6
SUB == 7
SUP == 8
GREEK == 9
OPERATOR == 10
TEXT == 11
SKIP == 12

\* whether the pattern of recognizer k, taken alone, matches at the start of expr
RuleMatches(k, expr) ==
    CASE k = FUNC     -> FuncParenMatch(expr).ok
      [] k = PAREN    -> ParenMatch(expr).ok
      [] k = MATRIX   -> MatrixMatch(expr).ok
      [] k = CASES    -> CasesMatch(expr).ok
      [] k = FRAC     -> FracMatch(expr).ok
      [] k = SUBSUP   -> CombinedMatch(expr).ok
      [] k = SUB      -> SubMatch(expr).ok
      [] k = SUP      -> SupMatch(expr).ok
      [] k = GREEK    -> GreekMatch(expr).ok
      [] k = OPERATOR -> OperatorMatch(expr).ok
      [] k = TEXT     -> TextMatch(expr).ok
      [] OTHER        -> TRUE

\* an if-chain that tries the subscript patterns before the combined ones
RecognizerSubFirst(expr) ==
    IF FuncParenMatch(expr).ok THEN FUNC
    ELSE IF ParenMatch(expr).ok THEN PAREN
    ELSE IF MatrixMatch(expr).ok THEN MATRIX
    ELSE IF CasesMatch(expr).ok THEN CASES
    ELSE IF FracMatch(expr).ok THEN FRAC
    ELSE IF SubMatch(expr).ok THEN SUB
    ELSE IF CombinedMatch(expr).ok THEN SUBSUP
    ELSE IF SupMatch(expr).ok THEN SUP
    ELSE IF GreekMatch(expr).ok THEN GREEK
    ELSE IF OperatorMatch(expr).ok THEN OPERATOR
    ELSE IF TextMatch(expr).ok THEN TEXT
    ELSE SKIP

\* the branch of _parse_expr that a non-empty expr takes: the if-chain
Recognizer(expr) ==
    IF FuncParenMatch(expr).ok THEN FUNC
    ELSE IF ParenMatch(expr).ok THEN PAREN
    ELSE IF MatrixMatch(expr).ok THEN MATRIX
    ELSE IF CasesMatch(expr).ok THEN CASES
    ELSE IF FracMatch(expr).ok THEN FRAC
    ELSE IF CombinedMatch(expr).ok THEN SUBSUP
    ELSE IF SubMatch(expr).ok THEN SUB
    ELSE IF SupMatch(expr).ok THEN SUP
    ELSE IF GreekMatch(expr).ok THEN GREEK
    ELSE IF OperatorMatch(expr).ok THEN OPERATOR
    ELSE IF TextMatch(expr).ok THEN TEXT
    ELSE SKIP

\* a call on the remainder that is made even when the remainder is empty
RemainingCallAlways(expr, m) == <<Drop(expr, m.end)>>

\* remaining = expr[m.end():]; if remaining: self._parse_expr(parent, remaining)
RemainingCall(expr, m) ==
    IF Drop(expr, m.end) # <<>> THEN <<Drop(expr, m.end)>> ELSE <<>>

\* a call on the rest that drops two characters
RestCallDropTwo(expr) ==
    IF Len(expr) > 2 THEN <<Drop(expr, 2)>> ELSE <<>>

\* a call on the rest that does not drop the first character
RestCallWhole(expr) ==
    IF Len(expr) > 1 THEN <<expr>> ELSE <<>>

\* if len(expr) > 1: self._parse_expr(parent, expr[1:])
RestCall(expr) ==
    IF Len(expr) > 1 THEN <<Drop(expr, 1)>> ELSE <<>>

\* The strings on which a branch calls _parse_expr, in the order of the
\* calls, m being the match object of the branch.

FuncCalls(expr, m) == <<m.g[2]>> \o RemainingCall(expr, m)

ParenCalls(expr, m) == <<m.g[1]>> \o RemainingCall(expr, m)

MatrixCalls(expr, m) == Flatten(MatrixCells(m.g[1])) \o RemainingCall(expr, m)

CasesCalls(expr, m) == CasesParts(m.g[1]) \o RemainingCall(expr, m)

FracCalls(expr, m) == <<m.g[1], m.g[2]>> \o RemainingCall(expr, m)

\* what the call number i of a branch appended, <<>> when the call was not made
Got(got, i) == IF i <= Len(got) THEN got[i] ELSE <<>>

\* The nodes a branch has appended to parent when it returns, m being its
\* match object and got[i] what its call number i appended.

FuncEmit(m, got) == FuncNodes(m.g[1], got[1]) \o Got(got, 2)

ParenEmit(m, got) == ParenNodes(m.g[1], got[1]) \o Got(got, 2)

MatrixEmit(m, got) ==
    LET texts == MatrixCells(m.g[1])
        before(r) == Len(Flatten(SubSeq(texts, 1, r - 1)))
        cells == [r \in 1..Len(texts) |->
                    [c \in 1..Len(texts[r]) |-> got[before(r) + c]]]
    IN  MatrixNodes(cells) \o Got(got, Len(Flatten(texts)) + 1)

CasesEmit(m, got) ==
    LET n == Len(CasesParts(m.g[1]))
    IN  CasesNodes(SubSeq(got, 1, n)) \o Got(got, n + 1)

FracEmit(m, got) == FracNodes(got[1], got[2]) \o Got(got, 3)

SubSupEmit(m, got) == SubSupNodes(m.g[1], m.g[2], m.g[3]) \o Got(got, 1)

SubEmit(m, got) == SubNodes(m.g[1], m.g[2]) \o Got(got, 1)

SupEmit(m, got) == SupNodes(m.g[1], m.g[2]) \o Got(got, 1)

GreekEmit(m, got) == GreekNodes(m.g[1]) \o Got(got, 1)

OperatorEmit(expr, got) == OperatorNodes(expr) \o Got(got, 1)

TextEmit(m, got) == TextNodes(m.g[1]) \o Got(got, 1)

SkipEmit(got) == Got(got, 1)

\* the nodes the invocation of branch k on expr has appended to parent
Emit(k, expr, got) ==
    CASE k = FUNC     -> FuncEmit(FuncParenMatch(expr), got)
      [] k = PAREN    -> ParenEmit(ParenMatch(expr), got)
      [] k = MATRIX   -> MatrixEmit(MatrixMatch(expr), got)
      [] k = CASES    -> CasesEmit(CasesMatch(expr), got)
      [] k = FRAC     -> FracEmit(FracMatch(expr), got)
      [] k = SUBSUP   -> SubSupEmit(CombinedMatch(expr), got)
      [] k = SUB      -> SubEmit(SubMatch(expr), got)
      [] k = SUP      -> SupEmit(SupMatch(expr), got)
      [] k = GREEK    -> GreekEmit(GreekMatch(expr), got)
      [] k = OPERATOR -> OperatorEmit(expr, got)
      [] k = TEXT     -> TextEmit(TextMatch(expr), got)
      [] OTHER        -> SkipEmit(got)

\* the strings on which the branch k calls _parse_expr on expr, in order
Calls(k, expr) ==
    CASE k = FUNC     -> FuncCalls(expr, FuncParenMatch(expr))
      [] k = PAREN    -> ParenCalls(expr, ParenMatch(expr))
      [] k = MATRIX   -> MatrixCalls(expr, MatrixMatch(expr))
      [] k = CASES    -> CasesCalls(expr, CasesMatch(expr))
      [] k = FRAC     -> FracCalls(expr, FracMatch(expr))
      [] k = SUBSUP   -> RemainingCall(expr, CombinedMatch(expr))
      [] k = SUB      -> RemainingCall(expr, SubMatch(expr))
      [] k = SUP      -> RemainingCall(expr, SupMatch(expr))
      [] k = GREEK    -> RemainingCall(expr, GreekMatch(expr))
      [] k = TEXT     -> RemainingCall(expr, TextMatch(expr))
      [] OTHER        -> RestCall(expr)

\* _parse_expr as a function: the nodes that _parse_expr(parent, arg) appends
\* to parent
RECURSIVE ParseExpr(_)
ParseExpr(arg) ==
    LET expr == Strip(arg)
    IN  IF expr = <<>>
        THEN <<>>
        ELSE LET k == Recognizer(expr)
                 calls == Calls(k, expr)
             IN  Emit(k, expr, [i \in 1..Len(calls) |-> ParseExpr(calls[i])])

----------------------------------------------------------------------------
(* The state machine: convert() and the invocations of _parse_expr *)

\* an invocation that has just been entered: expr = expr.strip(); rule 0
\* stands for not yet dispatched
NewFrame(arg) ==
    [arg |-> arg, expr |-> Strip(arg), rule |-> 0, todo |-> <<>>, got |-> <<>>]

Top == stack[Len(stack)]

\* a stripping that takes two characters from each end of $...$ as well
StripDelimitersTwoEach(l) ==
    IF StartsWith(l, <<"$">>) /\ EndsWith(l, <<"$">>)
    THEN Strip(SubSeq(l, 3, Len(l) - 2))
    ELSE l

\* the delimiter stripping of convert(), on the stripped input
StripDelimiters(l) ==
    IF StartsWith(l, <<"$", "$">>) /\ EndsWith(l, <<"$", "$">>)
    THEN Strip(SubSeq(l, 3, Len(l) - 2))
    ELSE IF StartsWith(l, <<"$">>) /\ EndsWith(l, <<"$">>)
    THEN Strip(SubSeq(l, 2, Len(l) - 1))
    ELSE l

\* the body of convert(s), up to the call of _parse_expr(omath, latex)
convert(s) ==
    /\ pc = "idle"
    /\ latex' = s
    /\ IF Strip(s) = <<>>
       THEN /\ pc' = "done"
            /\ result' = None
            /\ stack' = <<>>
       ELSE /\ pc' = "parsing"
            /\ stack' = <<NewFrame(StripDelimiters(Strip(s)))>>
            /\ UNCHANGED result

\* convert(s) on the instance at hand
ConvertOn(s) ==
    /\ convert(s)
    /\ UNCHANGED outside

\* self.latex_converter.convert(s) of instance i
ConvertBy(i, s) ==
    /\ convert(s)
    /\ conv' = i
    /\ UNCHANGED <<greek_maps, history, para_id_counter, issued, apart>>

\* the invocation on top has stripped its argument and found it non-empty
Dispatching ==
    /\ pc = "parsing"
    /\ Top.rule = 0
    /\ Top.expr # <<>>

\* the stack once the invocation on top has taken the branch of recognizer k,
\* which is to make the calls todo
Taken(k, todo) ==
    [stack EXCEPT ![Len(stack)] = [@ EXCEPT !.rule = k, !.todo = todo]]

\* the function-call branch
FuncParen ==
    /\ Dispatching
    /\ Recognizer(Top.expr) = FUNC
    /\ stack' = Taken(FUNC, FuncCalls(Top.expr, FuncParenMatch(Top.expr)))
    /\ UNCHANGED <<pc, latex, result, outside>>

\* the parenthesis branch
Paren ==
    /\ Dispatching
    /\ Recognizer(Top.expr) = PAREN
    /\ stack' = Taken(PAREN, ParenCalls(Top.expr, ParenMatch(Top.expr)))
    /\ UNCHANGED <<pc, latex, result, outside>>

\* the bmatrix branch
Matrix ==
    /\ Dispatching
    /\ Recognizer(Top.expr) = MATRIX
    /\ stack' = Taken(MATRIX, MatrixCalls(Top.expr, MatrixMatch(Top.expr)))
    /\ UNCHANGED <<pc, latex, result, outside>>

\* the cases branch
Cases ==
    /\ Dispatching
    /\ Recognizer(Top.expr) = CASES
    /\ stack' = Taken(CASES, CasesCalls(Top.expr, CasesMatch(Top.expr)))
    /\ UNCHANGED <<pc, latex, result, outside>>

\* the fraction branch
Frac ==
    /\ Dispatching
    /\ Recognizer(Top.expr) = FRAC
    /\ stack' = Taken(FRAC, FracCalls(Top.expr, FracMatch(Top.expr)))
    /\ UNCHANGED <<pc, latex, result, outside>>

\* the combined sub+sup branch
SubSup ==
    /\ Dispatching
    /\ Recognizer(Top.expr) = SUBSUP
    /\ stack' = Taken(SUBSUP, RemainingCall(Top.expr, CombinedMatch(Top.expr)))
    /\ UNCHANGED <<pc, latex, result, outside>>

\* the subscript branch
Sub ==
    /\ Dispatching
    /\ Recognizer(Top.expr) = SUB
    /\ stack' = Taken(SUB, RemainingCall(Top.expr, SubMatch(Top.expr)))
    /\ UNCHANGED <<pc, latex, result, outside>>

\* the superscript branch
Sup ==
    /\ Dispatching
    /\ Recognizer(Top.expr) = SUP
    /\ stack' = Taken(SUP, RemainingCall(Top.expr, SupMatch(Top.expr)))
    /\ UNCHANGED <<pc, latex, result, outside>>

\* a Greek branch that takes the name it has looked up out of the table
GreekForgets ==
    /\ Dispatching
    /\ Recognizer(Top.expr) = GREEK
    /\ stack' = Taken(GREEK, RemainingCall(Top.expr, GreekMatch(Top.expr)))
    /\ greek_maps' = [greek_maps EXCEPT ![conv] =
                         {e \in @ : e[1] # GreekMatch(Top.expr).g[1]}]
    /\ UNCHANGED <<pc, latex, result, conv, history, para_id_counter, issued, apart>>

\* the Greek branch
Greek ==
    /\ Dispatching
    /\ Recognizer(Top.expr) = GREEK
    /\ stack' = Taken(GREEK, RemainingCall(Top.expr, GreekMatch(Top.expr)))
    /\ UNCHANGED <<pc, latex, result, outside>>

\* the operator branch
Operator ==
    /\ Dispatching
    /\ Recognizer(Top.expr) = OPERATOR
    /\ stack' = Taken(OPERATOR, RestCall(Top.expr))
    /\ UNCHANGED <<pc, latex, result, outside>>

\* the text branch
Text ==
    /\ Dispatching
    /\ Recognizer(Top.expr) = TEXT
    /\ stack' = Taken(TEXT, RemainingCall(Top.expr, TextMatch(Top.expr)))
    /\ UNCHANGED <<pc, latex, result, outside>>

\* the fallback: skip one unknown character
Skip ==
    /\ Dispatching
    /\ Recognizer(Top.expr) = SKIP
    /\ stack' = Taken(SKIP, RestCall(Top.expr))
    /\ UNCHANGED <<pc, latex, result, outside>>

\* the invocation on top makes its next call of self._parse_expr
Call ==
    /\ pc = "parsing"
    /\ Top.rule # 0
    /\ Top.todo # <<>>
    /\ stack' = [stack EXCEPT ![Len(stack)] = [@ EXCEPT !.todo = Tail(@)]]
                \o <<NewFrame(Head(Top.todo))>>
    /\ UNCHANGED <<pc, latex, result, outside>>

\* the invocation on top is over and has appended nodes to its parent: the
\* caller goes on, or convert() returns omath
Finish(nodes) ==
    IF Len(stack) = 1
    THEN /\ pc' = "done"
         /\ result' = El("oMath", nodes)
         /\ stack' = <<>>
         /\ UNCHANGED <<latex, outside>>
    ELSE /\ stack' = [SubSeq(stack, 1, Len(stack) - 1)
                        EXCEPT ![Len(stack) - 1] =
                            [@ EXCEPT !.got = Append(@, nodes)]]
         /\ UNCHANGED <<pc, latex, result, outside>>

\* if not expr: return
ReturnBlank ==
    /\ pc = "parsing"
    /\ Top.rule = 0
    /\ Top.expr = <<>>
    /\ Finish(<<>>)

\* the return that ends a branch, all its calls made
Return ==
    /\ pc = "parsing"
    /\ Top.rule # 0
    /\ Top.todo = <<>>
    /\ Finish(Emit(Top.rule, Top.expr, Top.got))

----------------------------------------------------------------------------
(* The inputs of convert() and the specification *)

\* the longest argument text, in atoms, that is put into a formula
MaxArgLen == 2

\* the pieces that argument texts are made of: a letter, a digit, an operator,
\* a space, a Greek macro, an unmapped macro
Atoms ==
    { <<"x">>, <<"1">>, <<"+">>, <<" ">>,
      <<BS, "a", "l", "p", "h", "a">>, <<BS, "f", "o", "o">> }

\* the texts of at most n atoms
RECURSIVE AtomSeqs(_)
AtomSeqs(n) ==
    IF n = 0
    THEN {<<>>}
    ELSE LET shorter == AtomSeqs(n - 1)
         IN  shorter \cup {a \o t : a \in Atoms, t \in shorter}

Args == AtomSeqs(MaxArgLen)

\* the second argument of a two-argument formula: nothing, an atom, or a
\* text with braces of its own
Fills ==
    {<<>>} \cup Atoms
    \cup { <<"x", "_", "{", "d", "}">>,
           <<BS, "f", "r", "a", "c", "{", "1", "}", "{", "2", "}">> }

\* the formulas with one argument text A
Formulas1(A) ==
    { A,
      <<"$">> \o A \o <<"$">>,
      <<"$", "$">> \o A \o <<"$", "$">>,
      <<"(">> \o A \o <<")">>,
      <<BS, "c", "o", "s", "(">> \o A \o <<")">>,
      <<"c", "o", "s", "(">> \o A \o <<")">>,
      <<BS, "l", "n", " ", "(">> \o A \o <<")">>,
      <<"x", "_">> \o A,
      <<"x", "^">> \o A,
      <<"x", "_", "{">> \o A \o <<"}">>,
      <<"x", "^", "{">> \o A \o <<"}">>,
      <<BS, "a", "l", "p", "h", "a", "_", "{">> \o A \o <<"}">>,
      <<BS, "f", "o", "o", "^">> \o A,
      <<"#">> \o A,
      BeginBmatrix \o A \o EndBmatrix,
      BeginCases \o A \o EndCases }

\* the formulas with an argument text A and a second argument b
Formulas2(A, b) ==
    { A \o b,
      <<BS, "f", "r", "a", "c", "{">> \o A \o <<"}", "{">> \o b \o <<"}">>,
      <<BS, "f", "r", "a", "c", "{">> \o b \o <<"}", "{">> \o A \o <<"}">>,
      <<BS, "f", "r", "a", "c", "{">> \o b \o <<"}", "{", "2", "}">> \o A,
      <<"(">> \o b \o <<")">> \o A,
      <<"x", "_", "{">> \o b \o <<"}", "^", "{">> \o A \o <<"}">>,
      <<"x", "_", "d", "^">> \o A \o b,
      BeginBmatrix \o A \o <<"&">> \o b \o <<BS, BS>> \o b \o EndBmatrix,
      BeginCases \o A \o <<"&">> \o b \o <<BS, BS>> \o b \o EndCases }

\* formulas with scripts on Greek and other names, and macros in both cases
Extras ==
    { <<BS, "o", "m", "e", "g", "a", "_", "e", "^", "*">>,
      <<BS, "O", "m", "e", "g", "a">>,
      <<BS, "A", "l", "p", "h", "a">>,
      <<"x", "_", "{", "p", "i", "}">>,
      <<"x", "_", BS, "p", "i", "^", "*">>,
      <<BS, "f", "o", "o", "_", "d">>,
      <<"x", "_", "d", "^", "*", "+">>,
      <<"x", "_", "{", "d", "}", "^", "{", "*", "}", "+">>,
      BeginBmatrix \o <<"a", "&", "b", BS, BS, "c", "&", "d">> \o EndBmatrix,
      BeginBmatrix \o <<"a", "&", "b", BS, BS, "c", "&", "d", BS, BS>> \o EndBmatrix,
      BeginCases \o <<"a", "&", "b", BS, BS, "c", "&", "d">> \o EndCases \o <<"+">>,
      <<"a", "b", "_", "c">>,
      <<"3", "x", "^", "2">>,
      <<"a", "b", "_", "c", "^", "2">>,
      <<"x", "_", "{", "a", "^", "b", "}">>,
      <<"x", "^", "{", "a", "_", "b", "+", BS, "p", "i", "}">> }

Inputs ==
    UNION ({Formulas1(A) : A \in Args}
           \cup {Formulas2(A, b) : A \in Args, b \in Fills})
    \cup Extras

Convert ==
    /\ pc = "idle"
    /\ \E s \in Inputs : ConvertOn(s)

\* the steps of _parse_expr
Parse ==
    \/ FuncParen \/ Paren \/ Matrix \/ Cases \/ Frac
    \/ SubSup \/ Sub \/ Sup \/ Greek \/ Operator \/ Text \/ Skip
    \/ Call \/ ReturnBlank \/ Return

\* the MarkdownToDocxConverter instances
Instances == {"a", "b"}

\* self.para_id_counter = 0x10000000
FirstParaId == 268435456

\* no call of replace_text_in_xml has been made
NoXmlCall ==
    [at |-> "idle", file |-> <<>>, replacements |-> <<>>, decoded |-> <<>>,
     replacement_count |-> 0, todo |-> <<>>, before |-> <<>>, present |-> <<>>]

NoDocxCall ==
    [at |-> "idle", template |-> <<>>, replacements |-> <<>>, verify |-> FALSE,
     temp_exists |-> FALSE, temp |-> {}, written |-> FALSE, output |-> {},
     result |-> "none", verified |-> FALSE, missing |-> {}, extra |-> {}]

NoSearch ==
    [at |-> "idle", multi |-> FALSE, topics |-> <<>>, min_results |-> 0,
     min_citations |-> 0, k |-> 0, m |-> 0, fetched |-> <<>>, results |-> <<>>,
     i |-> 0, references |-> <<>>, all_refs |-> <<>>, seen_ids |-> {},
     by_topic |-> <<>>, returned |-> <<>>]

NoScan == [at |-> "idle", lines |-> <<>>, i |-> 0, body |-> <<>>, made |-> <<>>]

Init ==
    /\ pc = "idle"
    /\ latex = <<>>
    /\ stack = <<>>
    /\ result = None
    /\ conv = "a"
    /\ greek_maps = [i \in Instances |-> greek_table]
    /\ history = <<>>
    /\ para_id_counter = [i \in Instances |-> FirstParaId]
    /\ issued = [i \in Instances |-> <<>>]
    /\ xml = NoXmlCall
    /\ docx = NoDocxCall
    /\ found = NoSearch
    /\ scan = NoScan

Next == Convert \/ Parse

Spec == Init /\ [][Next]_vars

----------------------------------------------------------------------------
(* Calls of convert() one after the other, on the converters of several    *)
(* instances                                                               *)

\* the number of calls that are kept in history
MaxCalls == 2

\* formulas that between them take every branch of _parse_expr, and a blank
Repeated ==
    { <<BS, "c", "o", "s", "(", "x", ")", "+", "#">>,
      BeginBmatrix \o <<"(", BS, "a", "l", "p", "h", "a", ")", "x", "_", "d", "^", "*", "&", " ">>
          \o EndBmatrix,
      BeginCases \o <<BS, "f", "r", "a", "c", "{", "x", "^", "2", "}", "{", "x", "_", "d", "}">>
          \o EndCases,
      <<" ">> }

\* some instance's latex_converter is called with some formula
ConvertAny ==
    /\ pc = "idle"
    /\ \E i \in Instances, s \in Repeated : ConvertBy(i, s)

\* convert() has returned to its caller, which may call again
Again ==
    /\ pc = "done"
    /\ Len(history) < MaxCalls
    /\ history' = Append(history, [self |-> conv, latex |-> latex, result |-> result])
    /\ pc' = "idle"
    /\ UNCHANGED <<latex, stack, result, conv, greek_maps, para_id_counter, issued, apart>>

RepeatNext == ConvertAny \/ Parse \/ Again

RepeatSpec == Init /\ [][RepeatNext]_vars

----------------------------------------------------------------------------
(* The paragraph IDs of MarkdownToDocxConverter *)

\* the most IDs an instance hands out
MaxIds == 12

\* the most header cells of a table, and the most cells of a data row
MaxCols == 2

\* the most data rows of a table
MaxRows == 2

HexDigits ==
    <<"0", "1", "2", "3", "4", "5", "6", "7", "8", "9", "a", "b", "c", "d", "e", "f">>

\* hex(n)[2:]
RECURSIVE Hex(_)
Hex(n) ==
    IF n < 16
    THEN <<HexDigits[n + 1]>>
    ELSE Hex(n \div 16) \o <<HexDigits[(n % 16) + 1]>>

\* c.upper() for a hexadecimal digit
UpperDigit(c) ==
    CASE c = "a" -> "A" [] c = "b" -> "B" [] c = "c" -> "C"
      [] c = "d" -> "D" [] c = "e" -> "E" [] c = "f" -> "F"
      [] OTHER -> c

\* s.upper()
ToUpper(s) == [k \in 1..Len(s) |-> UpperDigit(s[k])]

\* s.zfill(width)
ZFill(s, width) ==
    IF Len(s) >= width THEN s ELSE [k \in 1..(width - Len(s)) |-> "0"] \o s

\* pid = hex(self.para_id_counter)[2:].upper().zfill(8)
ParaId(counter) == ZFill(ToUpper(Hex(counter)), 8)

\* a counter that stays where it is
SameCounter(counter) == counter

\* self.para_id_counter += 1
NextCounter(counter) == counter + 1

\* the IDs that n calls of _generate_para_id return, from the given counter on
RECURSIVE ParaIds(_, _)
ParaIds(counter, n) ==
    IF n = 0
    THEN <<>>
    ELSE <<ParaId(counter)>> \o ParaIds(NextCounter(counter), n - 1)

\* the counter after n calls of _generate_para_id
RECURSIVE CounterAfter(_, _)
CounterAfter(counter, n) ==
    IF n = 0 THEN counter ELSE CounterAfter(NextCounter(counter), n - 1)

\* n calls of self._generate_para_id() on instance i
generate_para_id(i, n) ==
    /\ pc = "idle"
    /\ Len(issued[i]) + n <= MaxIds
    /\ issued' = [issued EXCEPT ![i] = @ \o ParaIds(para_id_counter[i], n)]
    /\ para_id_counter' = [para_id_counter EXCEPT ![i] = CounterAfter(@, n)]
    /\ UNCHANGED <<pc, latex, stack, result, conv, greek_maps, history, apart>>

\* The paragraphs of _generate_document_xml.  Each of them sets its paraId
\* with one call of _generate_para_id; a body or formula paragraph also calls
\* latex_converter.convert(), which leaves the counter alone.

create_empty_paragraph == \E i \in Instances : generate_para_id(i, 1)

create_heading1 == \E i \in Instances : generate_para_id(i, 1)

create_heading2 == \E i \in Instances : generate_para_id(i, 1)

create_heading3 == \E i \in Instances : generate_para_id(i, 1)

create_body_paragraph == \E i \in Instances : generate_para_id(i, 1)

create_formula_paragraph == \E i \in Instances : generate_para_id(i, 1)

create_code_paragraph == \E i \in Instances : generate_para_id(i, 1)

\* the number of cells of all the rows
RECURSIVE CellCount(_)
CellCount(rows) ==
    IF rows = <<>> THEN 0 ELSE Head(rows) + CellCount(Tail(rows))

\* _create_table: one paragraph for each header cell, then one for each cell
\* of each data row; rows[r] is the number of cells of row r
create_table ==
    \E i \in Instances, headers \in 0..MaxCols, n \in 0..MaxRows :
        \E rows \in [1..n -> 1..MaxCols] :
            generate_para_id(i, headers + CellCount(rows))

DocNext ==
    \/ create_empty_paragraph
    \/ create_heading1
    \/ create_heading2
    \/ create_heading3
    \/ create_body_paragraph
    \/ create_formula_paragraph
    \/ create_code_paragraph
    \/ create_table

DocSpec == Init /\ [][DocNext]_vars

----------------------------------------------------------------------------
(* replace_docx.py: replace_text_in_xml *)

\* the variables of the converters
converters ==
    <<pc, latex, stack, result, conv, greek_maps, history, para_id_counter, issued>>

\* the character references of html.unescape that the files at hand can
\* hold: the name as it follows the "&", and the character it stands for
html5 ==
    { <<<<"a", "m", "p", ";">>, "&">>, <<<<"a", "m", "p">>, "&">>,
      <<<<"l", "t", ";">>, "<">>,      <<<<"l", "t">>, "<">>,
      <<<<"g", "t", ";">>, ">">>,      <<<<"g", "t">>, ">">>,
      <<<<"q", "u", "o", "t", ";">>, "\"">>, <<<<"q", "u", "o", "t">>, "\"">>,
      <<<<"a", "p", "o", "s", ";">>, "'">> }

\* the characters that end the name of a reference: [^\t\n\f <&#;]
NameStop == {"\t", "\n", "\f", " ", "<", "&", "#", ";"}

\* html._replace_charref on the text s that follows the "&": the character
\* of the name, or of its longest prefix that is a name, else the text as it is
replace_charref(s) ==
    LET known(t) == \E e \in html5 : e[1] = t
        char(t) == (CHOOSE e \in html5 : e[1] = t)[2]
        X == {x \in 2..(Len(s) - 1) : known(SubSeq(s, 1, x))}
    IN  IF known(s)
        THEN <<char(s)>>
        ELSE IF X # {}
        THEN <<char(SubSeq(s, 1, Max(X)))>> \o Drop(s, Max(X))
        ELSE <<"&">> \o s

\* html.unescape(s): every "&" followed by a name of 1 to 32 characters and
\* an optional ";" is replaced, from left to right
RECURSIVE unescape(_)
unescape(s) ==
    IF s = <<>>
    THEN <<>>
    ELSE IF s[1] # "&"
    THEN <<s[1]>> \o unescape(Tail(s))
    ELSE LET J == {j \in 2..Len(s) : s[j] \in NameStop}
             stop == IF J = {} THEN Len(s) + 1 ELSE Min(J)
             e == IF stop - 2 > 32 THEN 34 ELSE stop
             f == IF e <= Len(s) /\ s[e] = ";" THEN e + 1 ELSE e
         IN  IF e = 2
             THEN <<"&">> \o unescape(Tail(s))
             ELSE replace_charref(SubSeq(s, 2, f - 1)) \o unescape(Drop(s, f - 1))

\* old in s
Contains(s, old) == old = <<>> \/ FindSub(s, old, 1) > 0

\* a replacement of the first occurrence only
str_replace_first(s, old, new) ==
    LET k == FindSub(s, old, 1)
    IN  IF old = <<>>
        THEN new \o s
        ELSE IF k = 0
        THEN s
        ELSE SubSeq(s, 1, k - 1) \o new \o Drop(s, k - 1 + Len(old))

\* s.replace(old, new): the occurrences of old that do not overlap, from
\* left to right; an empty old stands before every character and at the end
RECURSIVE str_replace(_, _, _)
str_replace(s, old, new) ==
    LET k == FindSub(s, old, 1)
    IN  IF old = <<>>
        THEN IF s = <<>> THEN new ELSE new \o <<s[1]>> \o str_replace(Tail(s), old, new)
        ELSE IF k = 0
        THEN s
        ELSE SubSeq(s, 1, k - 1) \o new
             \o str_replace(Drop(s, k - 1 + Len(old)), old, new)

\* the most pairs of a replacement list
MaxPairs == 2

\* contents of word/document.xml
XmlFiles ==
    { <<>>, <<"a">>, <<"a", "a">>, <<"a", "b", "a">>,
      <<"a", "&", "a", "m", "p", ";", "b">>,
      <<"&", "l", "t", ";", "a", "&", "g", "t", ";">>,
      <<"&", "a", "m", "p", ";", "a", "m", "p", ";">> }

\* the pairs (old_text, new_text)
Pairs ==
    { <<old, new>> : old \in {<<>>, <<"a">>, <<"b">>, <<"&">>,
                             <<"&", "a", "m", "p", ";">>},
                     new \in {<<>>, <<"b">>, <<"c">>} }

\* the lists of at most n pairs
RECURSIVE PairLists(_)
PairLists(n) ==
    IF n = 0
    THEN {<<>>}
    ELSE LET shorter == PairLists(n - 1)
         IN  shorter \cup {<<p>> \o l : p \in Pairs, l \in shorter}

\* replace_text_in_xml(xml_path, replacements) is called on a file
CallReplaceText ==
    /\ xml.at = "idle"
    /\ \E c \in XmlFiles, r \in PairLists(MaxPairs) :
           xml' = [NoXmlCall EXCEPT !.at = "read", !.file = c, !.before = c,
                                    !.replacements = r]
    /\ UNCHANGED <<converters, docx, found, scan>>

\* content = f.read(); decoded = html.unescape(content); replacement_count = 0
ReadXml ==
    /\ xml.at = "read"
    /\ xml' = [xml EXCEPT !.at = "loop", !.decoded = unescape(xml.file),
                          !.replacement_count = 0, !.todo = xml.replacements]
    /\ UNCHANGED <<converters, docx, found, scan>>

\* one turn of the loop over the pairs; present keeps what the turn printed:
\* Replaced (TRUE) or Not found (FALSE)
ApplyPair ==
    /\ xml.at = "loop"
    /\ xml.todo # <<>>
    /\ LET old_text == Head(xml.todo)[1]
           new_text == Head(xml.todo)[2]
       IN  IF Contains(xml.decoded, old_text)
           THEN xml' = [xml EXCEPT !.decoded = str_replace(@, old_text, new_text),
                                   !.replacement_count = @ + 1,
                                   !.todo = Tail(@),
                                   !.present = Append(@, TRUE)]
           ELSE xml' = [xml EXCEPT !.todo = Tail(@),
                                   !.present = Append(@, FALSE)]
    /\ UNCHANGED <<converters, docx, found, scan>>

\* f.write(decoded); return replacement_count
WriteXml ==
    /\ xml.at = "loop"
    /\ xml.todo = <<>>
    /\ xml' = [xml EXCEPT !.at = "returned", !.file = xml.decoded]
    /\ UNCHANGED <<converters, docx, found, scan>>

XmlNext == CallReplaceText \/ ReadXml \/ ApplyPair \/ WriteXml

XmlSpec == Init /\ [][XmlNext]_vars

----------------------------------------------------------------------------
(* replace_docx.py: unpack_docx, pack_docx, verify_docx, replace_in_docx *)

\* An archive is a sequence of entries [name, content].  A name is the
\* sequence of the parts that "/" separates in it, so that "d/" is
\* <<"d", "">> and "../a" is <<"..", "a">>; the content of word/document.xml
\* is a sequence whose items are characters or whole element names, the
\* characters being none of those of the element names.

\* os.path.join(temp_dir, 'word', 'document.xml'), relative to temp_dir
document_xml == <<"word", "document.xml">>

critical_files ==
    { document_xml, <<"word", "header1.xml">>, <<"word", "footer1.xml">>,
      <<"word", "styles.xml">>, <<"word", "_rels", "document.xml.rels">>,
      <<"[Content_Types].xml">> }

\* the elements verify_docx looks for in word/document.xml
checks ==
    {"w:pgMar", "w:pgSz", "w:headerReference", "w:footerReference", "w:spacing"}

\* f.endswith('/')
EndsWithSlash(name) == name # <<>> /\ name[Len(name)] = ""

\* the path below the target directory at which ZipFile.extractall writes
\* the member called name: its parts other than '', '.' and '..'
ExtractPath(name) == SelectSeq(name, LAMBDA x : x \notin {"", ".", ".."})

\* the directories above the path p
UpperDirs(p) == {SubSeq(p, 1, k) : k \in 1..(Len(p) - 1)}

NoTree == [files |-> {}, dirs |-> {}, ok |-> TRUE]

\* z.extractall(output_dir): the members in the order of the archive, each
\* written over what an earlier one left at its path; a file where a
\* directory is, or below a file, raises, and what was extracted stays
RECURSIVE extractall(_, _)
extractall(members, tree) ==
    IF members = <<>> \/ ~tree.ok
    THEN tree
    ELSE LET m == Head(members)
             p == ExtractPath(m.name)
             isfile(q) == \E f \in tree.files : f.name = q
             under == {q \in UpperDirs(p) \cup {p} : isfile(q)}
         IN  IF EndsWithSlash(m.name)
             THEN IF under # {}
                  THEN [tree EXCEPT !.ok = FALSE]
                  ELSE extractall(Tail(members),
                                  [tree EXCEPT !.dirs = @ \cup UpperDirs(p) \cup {p}])
             ELSE IF p \in tree.dirs \/ \E q \in UpperDirs(p) : isfile(q)
             THEN [tree EXCEPT !.ok = FALSE]
             ELSE extractall(Tail(members),
                      [tree EXCEPT !.files = {f \in @ : f.name # p}
                                            \cup {[name |-> p, content |-> m.content]},
                                   !.dirs = @ \cup UpperDirs(p)])

\* a walk that stays in the top directory
walk_top(files) == {f \in files : Len(f.name) = 1}

\* pack_docx: os.walk(input_dir) gives every file of every directory, named
\* by its path relative to input_dir; directories give no entry
walk(files) == files

\* the file names of an archive given as its set of names
FilesOnly(names) == {n \in names : ~EndsWithSlash(n)}

\* replace_text_in_xml as a whole: the text the loop leaves
RECURSIVE replace_pairs(_, _)
replace_pairs(decoded, replacements) ==
    IF replacements = <<>>
    THEN decoded
    ELSE LET old_text == Head(replacements)[1]
             new_text == Head(replacements)[2]
         IN  replace_pairs(IF Contains(decoded, old_text)
                           THEN str_replace(decoded, old_text, new_text)
                           ELSE decoded,
                           Tail(replacements))

\* the most entries a template holds besides those of its base
MaxEntries == 2

\* content of word/document.xml with and without the elements of checks
FullDocument ==
    <<"w:pgMar", "w:pgSz", "w:headerReference", "w:footerReference", "w:spacing", "k">>

BareDocument == <<"k">>

\* what a template starts with: nothing, a lone word/document.xml, or the
\* six critical files
Bases ==
    { <<>>,
      <<[name |-> document_xml, content |-> BareDocument]>>,
      <<[name |-> document_xml, content |-> FullDocument],
        [name |-> <<"word", "header1.xml">>, content |-> <<"x">>],
        [name |-> <<"word", "footer1.xml">>, content |-> <<"x">>],
        [name |-> <<"word", "styles.xml">>, content |-> <<"x">>],
        [name |-> <<"word", "_rels", "document.xml.rels">>, content |-> <<"x">>],
        [name |-> <<"[Content_Types].xml">>, content |-> <<"x">>]>> }

\* further entries: a, ../a, d/ and a/b
MoreEntries ==
    { [name |-> <<"a">>, content |-> <<"x">>],
      [name |-> <<"..", "a">>, content |-> <<"y">>],
      [name |-> <<"d", "">>, content |-> <<>>],
      [name |-> <<"a", "b">>, content |-> <<"x">>] }

RECURSIVE EntryLists(_)
EntryLists(n) ==
    IF n = 0
    THEN {<<>>}
    ELSE LET shorter == EntryLists(n - 1)
         IN  shorter \cup {<<e>> \o l : e \in MoreEntries, l \in shorter}

DocxLists ==
    { <<>>,
      << <<<<"k">>, <<"b">>>> >>,
      << <<<<"w:spacing">>, <<>>>> >> }

\* a file left in the temporary directory by an earlier run
Leftover == [name |-> <<"old">>, content |-> <<"x">>]

\* replace_in_docx(template_path, output_path, replacements, temp_dir,
\* verify) is called; the temporary directory may be there already
CallReplaceInDocx ==
    /\ docx.at = "idle"
    /\ \E base \in Bases, more \in EntryLists(MaxEntries), r \in DocxLists,
          v \in BOOLEAN, stale \in BOOLEAN :
           docx' = [NoDocxCall EXCEPT !.at = "clean", !.template = base \o more,
                                      !.replacements = r, !.verify = v,
                                      !.temp_exists = stale,
                                      !.temp = IF stale THEN {Leftover} ELSE {}]
    /\ UNCHANGED <<converters, xml, found, scan>>

\* an exception leaves the try block: the finally clause is next
raised(d) == [d EXCEPT !.at = "finally", !.result = "raised"]

\* if os.path.exists(temp_dir): shutil.rmtree(temp_dir)
CleanTemp ==
    /\ docx.at = "clean"
    /\ docx' = [docx EXCEPT !.at = "unpack", !.temp_exists = FALSE, !.temp = {}]
    /\ UNCHANGED <<converters, xml, found, scan>>

\* unpack_docx(template_path, temp_dir); the archive may fail to open
Unpack ==
    /\ docx.at = "unpack"
    /\ \E fails \in BOOLEAN :
           LET made == [docx EXCEPT !.temp_exists = TRUE, !.temp = {}]
               tree == extractall(docx.template, NoTree)
           IN  IF fails
               THEN docx' = raised(made)
               ELSE IF ~tree.ok
               THEN docx' = raised([made EXCEPT !.temp = tree.files])
               ELSE docx' = [made EXCEPT !.at = "replace", !.temp = tree.files]
    /\ UNCHANGED <<converters, xml, found, scan>>

\* count = replace_text_in_xml(document_xml, replacements); the file may be
\* missing or fail to be read
Replace ==
    /\ docx.at = "replace"
    /\ \E fails \in BOOLEAN :
           IF fails \/ ~\E f \in docx.temp : f.name = document_xml
           THEN docx' = raised(docx)
           ELSE docx' = [docx EXCEPT
                    !.at = "pack",
                    !.temp = {IF f.name = document_xml
                              THEN [f EXCEPT !.content =
                                        replace_pairs(unescape(@), docx.replacements)]
                              ELSE f : f \in @}]
    /\ UNCHANGED <<converters, xml, found, scan>>

\* os.remove(output_path) if it is there; pack_docx(temp_dir, output_path);
\* the output may fail to be written
Pack ==
    /\ docx.at = "pack"
    /\ \E fails \in BOOLEAN :
           IF fails
           THEN docx' = raised(docx)
           ELSE docx' = [docx EXCEPT
                    !.at = IF docx.verify THEN "verify" ELSE "finally",
                    !.result = IF docx.verify THEN @ ELSE "True",
                    !.written = TRUE,
                    !.output = walk(docx.temp)]
    /\ UNCHANGED <<converters, xml, found, scan>>

\* results = verify_docx(template_path, output_path); return results["passed"]
Verify ==
    /\ docx.at = "verify"
    /\ \E fails \in BOOLEAN :
           LET tmpl_files == FilesOnly({docx.template[i].name : i \in DOMAIN docx.template})
               out_files == FilesOnly({f.name : f \in docx.output})
               missing == tmpl_files \ out_files
               content == (CHOOSE f \in docx.output : f.name = document_xml).content
               passed == /\ missing = {}
                         /\ critical_files \subseteq out_files
                         /\ document_xml \in out_files =>
                                \A c \in checks : Contains(content, <<c>>)
           IN  IF fails
               THEN docx' = raised(docx)
               ELSE docx' = [docx EXCEPT !.at = "finally",
                                         !.result = IF passed THEN "True" ELSE "False",
                                         !.verified = TRUE,
                                         !.missing = missing,
                                         !.extra = out_files \ tmpl_files]
    /\ UNCHANGED <<converters, xml, found, scan>>

\* the finally clause, but for a call that raised
cleanup_unless_raised(d) ==
    IF d.result = "raised"
    THEN [d EXCEPT !.at = "finished"]
    ELSE [d EXCEPT !.at = "finished", !.temp_exists = FALSE, !.temp = {}]

\* finally: if os.path.exists(temp_dir): shutil.rmtree(temp_dir)
cleanup(d) == [d EXCEPT !.at = "finished", !.temp_exists = FALSE, !.temp = {}]

Finally ==
    /\ docx.at = "finally"
    /\ docx' = cleanup(docx)
    /\ UNCHANGED <<converters, xml, found, scan>>

DocxNext == CallReplaceInDocx \/ CleanTemp \/ Unpack \/ Replace \/ Pack \/ Verify \/ Finally

DocxSpec == Init /\ [][DocxNext]_vars

----------------------------------------------------------------------------
(* search_references.py: ReferenceSearcher *)

\* A reference is a sequence whose items are characters or whole words
\* without a full stop.  A work is a record of the fields _default_format
\* reads; its biblio is empty, and null_authorships says that its authorships
\* field is null.

\* str(n) for n >= 0
RECURSIVE Decimal(_)
Decimal(n) ==
    LET digit == <<"0", "1", "2", "3", "4", "5", "6", "7", "8", "9">>[(n % 10) + 1]
    IN  IF n < 10 THEN <<digit>> ELSE Append(Decimal(n \div 10), digit)

\* ", ".join(names)
RECURSIVE JoinNames(_)
JoinNames(names) ==
    IF names = <<>>
    THEN <<>>
    ELSE IF Len(names) = 1
    THEN names[1]
    ELSE names[1] \o <<",", " ">> \o JoinNames(Tail(names))

\* _default_format(work, index): "" when the work cannot be read
default_format(work, index) ==
    IF work.null_authorships
    THEN <<>>
    ELSE LET first == SubSeq(work.authorships, 1, IF Len(work.authorships) > 3
                                                  THEN 3 ELSE Len(work.authorships))
             named == SelectSeq(first, LAMBDA name : name # <<>>)
             author_names == IF Len(work.authorships) > 3
                             THEN Append(named, <<"et al">>)
                             ELSE named
             authors_str == IF author_names # <<>>
                            THEN JoinNames(author_names)
                            ELSE <<"Unknown Author">>
             head == <<"[">> \o Decimal(index) \o <<"]", " ">> \o authors_str
                     \o <<".", " ", work.title>>
         IN  IF work.journal # <<>>
             THEN head \o <<"[J]", ".", " ">> \o work.journal
                       \o <<",", " ", work.year, ".">>
             ELSE head \o <<"[C]", ".", " ", work.year, ".">>

\* ref.split('.')[0] if '.' in ref else ref, with the number left in
work_id_with_number(ref) ==
    LET dots == {j \in 1..Len(ref) : ref[j] = "."}
    IN  IF dots = {} THEN ref ELSE SubSeq(ref, 1, Min(dots) - 1)

\* results[:min_results], a window of half the width
first_m(results, min_results) ==
    SubSeq(results, 1, IF min_results < Len(results) THEN min_results ELSE Len(results))

\* results[:min_results * 2]
first_2m(results, min_results) ==
    SubSeq(results, 1, IF min_results * 2 < Len(results)
                       THEN min_results * 2 ELSE Len(results))

\* [w for w in results if w.get("cited_by_count", 0) >= min_citations], when
\* min_citations is given and not 0
at_least_cited(results, min_citations) ==
    IF min_citations = 0
    THEN results
    ELSE SelectSeq(results, LAMBDA w : w.cited_by_count >= min_citations)

\* the loop of search_multi over the references of one topic
RECURSIVE merge(_, _, _)
merge(results, all_refs, seen_ids) ==
    IF results = <<>>
    THEN [all_refs |-> all_refs, seen_ids |-> seen_ids]
    ELSE LET ref == Head(results)
             work_id == work_id_with_number(ref)
         IN  IF work_id \notin seen_ids
             THEN merge(Tail(results), Append(all_refs, ref), seen_ids \cup {work_id})
             ELSE merge(Tail(results), all_refs, seen_ids)

\* the longest list of works a query gives
MaxWorks == 3

\* the largest min_results
MaxMin == 3

\* the most topics of a search_multi
MaxTopics == 2

Works ==
    { [authorships |-> << <<"A", ".", " ", "Smith">> >>, null_authorships |-> FALSE,
       title |-> "T1",
       journal |-> <<>>, year |-> "2020", cited_by_count |-> 9],
      [authorships |-> << <<"A", ".", " ", "Jones">> >>, null_authorships |-> FALSE,
       title |-> "T2",
       journal |-> <<"J1">>, year |-> "2021", cited_by_count |-> 5],
      [authorships |-> << <<"Li Wei">> >>, null_authorships |-> FALSE, title |-> "T3",
       journal |-> <<>>, year |-> "2022", cited_by_count |-> 5],
      [authorships |-> <<>>, null_authorships |-> TRUE, title |-> "T4",
       journal |-> <<>>, year |-> "2019", cited_by_count |-> 7] }

\* what a query gives: works, none twice, sorted by cited_by_count, "desc"
RECURSIVE Fetched(_)
Fetched(n) ==
    IF n = 0
    THEN {<<>>}
    ELSE LET shorter == Fetched(n - 1)
             follows(l, w) == \A j \in DOMAIN l :
                                  /\ l[j] # w
                                  /\ l[j].cited_by_count >= w.cited_by_count
         IN  shorter \cup {Append(x[1], x[2]) :
                              x \in {y \in shorter \X Works : follows(y[1], y[2])}}

\* the lists of at most n topics, each given as what its query fetches
RECURSIVE TopicLists(_)
TopicLists(n) ==
    IF n = 1
    THEN {<<f>> : f \in Fetched(MaxWorks)}
    ELSE LET shorter == TopicLists(n - 1)
         IN  shorter \cup {Append(l, f) : l \in shorter, f \in Fetched(MaxWorks)}

\* search(query, min_results, min_citations) is called
CallSearch ==
    /\ found.at = "idle"
    /\ \E f \in Fetched(MaxWorks), m \in 0..MaxMin, c \in {0, 6} :
           found' = [NoSearch EXCEPT !.at = "get", !.multi = FALSE, !.topics = <<f>>,
                                     !.k = 1, !.m = m, !.min_citations = c]
    /\ UNCHANGED <<converters, xml, docx, scan>>

\* search_multi(topics, min_results) is called, without min_citations
CallSearchMulti ==
    /\ found.at = "idle"
    /\ \E t \in TopicLists(MaxTopics), m \in 1..MaxMin :
           found' = [NoSearch EXCEPT !.at = "topic", !.multi = TRUE, !.topics = t,
                                     !.min_results = m]
    /\ UNCHANGED <<converters, xml, docx, scan>>

\* for topic in topics: results = self.search(query=topic,
\* min_results=max(2, min_results // len(topics)), ...)
NextTopic ==
    /\ found.at = "topic"
    /\ found.k < Len(found.topics)
    /\ found' = [found EXCEPT !.at = "get", !.k = @ + 1,
                              !.m = Max({2, found.min_results \div Len(found.topics)})]
    /\ UNCHANGED <<converters, xml, docx, scan>>

\* results = work_query.get(), an empty list returned when the service
\* answers 401; the min_citations filter; references = []
Get ==
    /\ found.at = "get"
    /\ \E unauthorized \in BOOLEAN :
           IF unauthorized
           THEN found' = [found EXCEPT !.at = "searched", !.fetched = <<>>,
                                       !.results = <<>>, !.references = <<>>, !.i = 0]
           ELSE found' = [found EXCEPT
                    !.at = "format",
                    !.fetched = found.topics[found.k],
                    !.results = at_least_cited(found.topics[found.k],
                                               found.min_citations),
                    !.references = <<>>, !.i = 0]
    /\ UNCHANGED <<converters, xml, docx, scan>>

\* one turn of: for i, work in enumerate(results[:min_results * 2], 1)
FormatWork ==
    /\ found.at = "format"
    /\ found.i < Len(first_2m(found.results, found.m))
    /\ Len(found.references) < found.m
    /\ LET ref == default_format(found.results[found.i + 1], found.i + 1)
       IN  found' = [found EXCEPT !.i = @ + 1,
                                  !.references = IF ref # <<>> THEN Append(@, ref) ELSE @]
    /\ UNCHANGED <<converters, xml, docx, scan>>

\* the loop ends, by break or at the end of the window: return references
EndOfWorks ==
    /\ found.at = "format"
    /\ \/ found.i >= Len(first_2m(found.results, found.m))
       \/ Len(found.references) >= found.m
    /\ found' = [found EXCEPT !.at = "searched"]
    /\ UNCHANGED <<converters, xml, docx, scan>>

\* search has returned: to its caller, or into the loop of search_multi over
\* the references, of which by_topic keeps a copy
ReturnSearch ==
    /\ found.at = "searched"
    /\ IF found.multi
       THEN LET merged == merge(found.references, found.all_refs, found.seen_ids)
            IN  found' = [found EXCEPT !.at = "topic",
                                       !.all_refs = merged.all_refs,
                                       !.seen_ids = merged.seen_ids,
                                       !.by_topic = Append(@, found.references)]
       ELSE found' = [found EXCEPT !.at = "returned", !.returned = found.references]
    /\ UNCHANGED <<converters, xml, docx, scan>>

\* return all_refs[:min_results]
ReturnMulti ==
    /\ found.at = "topic"
    /\ found.k = Len(found.topics)
    /\ found' = [found EXCEPT !.at = "returned",
                              !.returned = first_m(found.all_refs, found.min_results)]
    /\ UNCHANGED <<converters, xml, docx, scan>>

SearchNext ==
    \/ CallSearch \/ CallSearchMulti \/ NextTopic \/ Get \/ FormatWork
    \/ EndOfWorks \/ ReturnSearch \/ ReturnMulti

SearchSpec == Init /\ [][SearchNext]_vars

----------------------------------------------------------------------------
(* md_to_docx_converter.py: the block scan of _generate_document_xml *)

\* The body is kept as the sequence of its blocks [kind, text, rows]: text
\* holds the lines (or header cells) handed to the block's constructor, rows
\* the data rows of a table.  The index i counts from 0 as in the source.

\* the backquote, a character that a string of this module cannot hold
BQ == "backquote"

\* the mark of a code fence
Fence == <<BQ, BQ, BQ>>

\* str.rstrip()
RStrip(s) ==
    LET I == {i \in 1..Len(s) : s[i] \notin Whitespace}
    IN  IF I = {} THEN <<>> ELSE SubSeq(s, 1, Max(I))

\* lines[a:b]
Slice(lines, a, b) == SubSeq(lines, a + 1, b)

\* the index at which a loop "while i < len(lines) and P(lines[i]): i += 1"
\* that starts at index i stops
WhileFrom(lines, i, P(_)) ==
    LET J == {j \in i..(Len(lines) - 1) : ~P(lines[j + 1])}
    IN  IF J = {} THEN Max({i, Len(lines)}) ELSE Min(J)

\* lines[i].strip().startswith('|')
IsTableLine(l) == StartsWith(Strip(l), <<"|">>)

\* not lines[i].strip().startswith(three backquotes)
NotFence(l) == ~StartsWith(Strip(l), Fence)

\* not lines[i].strip().endswith('$$')
NotClosing(l) == ~EndsWith(Strip(l), <<"$", "$">>)

\* a line that goes on a paragraph: not blank and not the start of a block
GoesOn(l) ==
    LET s == Strip(RStrip(l))
    IN  /\ s # <<>>
        /\ ~StartsWith(s, <<"#">>)
        /\ ~StartsWith(s, <<"|">>)
        /\ ~StartsWith(s, <<"$", "$">>)
        /\ ~StartsWith(s, Fence)

Block(kind, text) == [kind |-> kind, text |-> text, rows |-> <<>>]

\* [c.strip() for c in line.split('|')[1:-1]]
TableCells(line) ==
    LET parts == Split(line, <<"|">>)
    IN  StripAll(SubSeq(parts, 2, Len(parts) - 1))

\* _create_table(table_lines): the element, or None below two lines
md_table(table_lines) ==
    IF Len(table_lines) < 2
    THEN <<>>
    ELSE LET data_lines == SelectSeq(Slice(table_lines, 2, Len(table_lines)),
                                     LAMBDA l : Strip(l) # <<>> /\ TableCells(l) # <<>>)
         IN  << [kind |-> "tbl", text |-> TableCells(table_lines[1]),
                 rows |-> [r \in 1..Len(data_lines) |-> TableCells(data_lines[r])]] >>

\* a table branch that leaves the index where it is when the run is a
\* single line
table_branch_keeps_single(lines, i) ==
    LET j == WhileFrom(lines, i, IsTableLine)
        table_lines == Slice(lines, i, j)
    IN  [i |-> IF Len(table_lines) >= 2 THEN j ELSE i,
         blocks |-> IF Len(table_lines) >= 2 THEN md_table(table_lines) ELSE <<>>]

\* a table branch that makes one table of every line of the run
table_branch_each_line(lines, i) ==
    LET j == WhileFrom(lines, i, IsTableLine)
        table_lines == Slice(lines, i, j)
    IN  [i |-> j,
         blocks |-> IF Len(table_lines) >= 2
                    THEN md_table(table_lines) \o md_table(table_lines)
                    ELSE <<>>]

\* elif stripped.startswith('|')
table_branch(lines, i) ==
    LET j == WhileFrom(lines, i, IsTableLine)
        table_lines == Slice(lines, i, j)
    IN  [i |-> j,
         blocks |-> IF Len(table_lines) >= 2 THEN md_table(table_lines) ELSE <<>>]

\* elif stripped.startswith(three backquotes)
fence_branch(lines, i) ==
    LET j == WhileFrom(lines, i + 1, NotFence)
    IN  [i |-> j + 1, blocks |-> <<Block("code", Slice(lines, i + 1, j))>>]

\* elif stripped.startswith('$$')
formula_branch(lines, i) ==
    LET stripped == Strip(RStrip(lines[i + 1]))
        j == WhileFrom(lines, i + 1, NotClosing)
    IN  IF ~EndsWith(stripped, <<"$", "$">>) \/ stripped = <<"$", "$">>
        THEN IF j < Len(lines)
             THEN [i |-> j + 1,
                   blocks |-> <<Block("formula", <<stripped>> \o Slice(lines, i + 1, j)
                                                 \o <<Strip(lines[j + 1])>>)>>]
             ELSE [i |-> j,
                   blocks |-> <<Block("formula", <<stripped>> \o Slice(lines, i + 1, j))>>]
        ELSE [i |-> i + 1, blocks |-> <<Block("formula", <<stripped>>)>>]

\* else: a paragraph
paragraph_branch(lines, i) ==
    LET j == WhileFrom(lines, i + 1, GoesOn)
        rest == Slice(lines, i + 1, j)
    IN  [i |-> j,
         blocks |-> <<Block("p", <<RStrip(lines[i + 1])>>
                                 \o [n \in 1..Len(rest) |-> RStrip(rest[n])])>>]

\* one turn of the loop "while i < len(lines)" at index i: the index it
\* leaves and the blocks it appends
turn(lines, i) ==
    LET stripped == Strip(RStrip(lines[i + 1]))
    IN  IF stripped = <<>>
        THEN [i |-> i + 1, blocks |-> <<>>]
        ELSE IF StartsWith(stripped, <<"#", " ">>)
        THEN [i |-> i + 1, blocks |-> <<Block("h1", <<Strip(Drop(stripped, 2))>>)>>]
        ELSE IF StartsWith(stripped, <<"#", "#", " ">>)
        THEN [i |-> i + 1, blocks |-> <<Block("h2", <<Strip(Drop(stripped, 3))>>)>>]
        ELSE IF StartsWith(stripped, <<"#", "#", "#", " ">>)
        THEN [i |-> i + 1, blocks |-> <<Block("h3", <<Strip(Drop(stripped, 4))>>)>>]
        ELSE IF StartsWith(stripped, <<"|">>)
        THEN table_branch(lines, i)
        ELSE IF StartsWith(stripped, Fence)
        THEN fence_branch(lines, i)
        ELSE IF StartsWith(stripped, <<"$", "$">>)
        THEN formula_branch(lines, i)
        ELSE paragraph_branch(lines, i)

\* the most lines of a markdown text
MaxLines == 3

SampleLines ==
    { <<>>, <<" ">>, <<"#", " ", "h">>, <<"#", "#", " ", "h">>,
      <<"#", "#", "#", " ", "h">>, <<"#", "x">>,
      <<"|", "a", "|">>, <<" ", "|", "b", "|">>, Fence,
      <<"$", "$">>, <<"$", "$", "x", "$", "$">>, <<"x", "$", "$">>, <<"x">> }

\* markdown.split('\n'): at least one line
RECURSIVE Markdowns(_)
Markdowns(n) ==
    IF n = 1
    THEN {<<l>> : l \in SampleLines}
    ELSE LET shorter == Markdowns(n - 1)
         IN  shorter \cup {Append(m, l) : m \in shorter, l \in SampleLines}

\* _generate_document_xml(markdown) up to the loop: the body starts with an
\* empty paragraph
CallGenerate ==
    /\ scan.at = "idle"
    /\ \E m \in Markdowns(MaxLines) :
           scan' = [NoScan EXCEPT !.at = "loop", !.lines = m, !.i = 0,
                                  !.body = <<Block("empty", <<>>)>>]
    /\ UNCHANGED <<converters, xml, docx, found>>

\* one turn of the loop; made keeps, of every turn, the index it began at,
\* the index it left and the blocks it appended
Turn ==
    /\ scan.at = "loop"
    /\ scan.i < Len(scan.lines)
    /\ LET t == turn(scan.lines, scan.i)
       IN  scan' = [scan EXCEPT !.i = t.i, !.body = @ \o t.blocks,
                                !.made = Append(@, [from |-> scan.i, to |-> t.i,
                                                    blocks |-> t.blocks])]
    /\ UNCHANGED <<converters, xml, docx, found>>

\* the loop is over: body.append(self._create_section_properties())
EndOfLines ==
    /\ scan.at = "loop"
    /\ scan.i >= Len(scan.lines)
    /\ scan' = [scan EXCEPT !.at = "done", !.body = Append(@, Block("sectPr", <<>>))]
    /\ UNCHANGED <<converters, xml, docx, found>>

ScanNext == CallGenerate \/ Turn \/ EndOfLines

ScanSpec == Init /\ [][ScanNext]_vars

----------------------------------------------------------------------------
(* Properties of the parser: what they speak of *)

\* the text convert() hands to _parse_expr: stripped, one delimiter pair removed
Formula == StripDelimiters(Strip(latex))

\* convert() has returned a tree
Returned == pc = "done" /\ result # None

\* the stack machine computes the function ParseExpr
MachineComputesParseExpr ==
    Returned => result = El("oMath", ParseExpr(Formula))

----------------------------------------------------------------------------
(* C1  Termination.  Every string on which an invocation of _parse_expr    *)
(* calls _parse_expr, whether the call is under way or still to be made,   *)
(* is strictly shorter than the string the invocation works on, and the    *)
(* parse always has a step to take until convert() has returned.           *)

CallsAreShorter ==
    \A i \in 1..Len(stack) :
        /\ \A j \in 1..Len(stack[i].todo) :
               Len(stack[i].todo[j]) < Len(stack[i].expr)
        /\ i > 1 => Len(stack[i].arg) < Len(stack[i - 1].expr)

\* The steps an invocation on a string of n characters can still take are
\* at most 5n + 1: one to dispatch, one to return, and for each of its calls
\* one to make the call and the steps of the callee; each call uses up at
\* least one character of the caller's string besides those it passes on.
Budget(n) == 5 * n + 1

RECURSIVE Pending(_)
Pending(todo) ==
    IF todo = <<>>
    THEN 0
    ELSE 1 + Budget(Len(Head(todo))) + Pending(Tail(todo))

FrameWork(f) == IF f.rule = 0 THEN Budget(Len(f.arg)) ELSE 1 + Pending(f.todo)

RECURSIVE Work(_)
Work(frames) ==
    IF frames = <<>> THEN 0 ELSE FrameWork(Head(frames)) + Work(Tail(frames))

\* C1: every call of _parse_expr gets a string strictly shorter than the
\* string of its caller, and every step of the parse uses up some of the work
\* that is left, so that convert() comes to its end
C1_EachCallGetsAShorterString ==
    /\ []CallsAreShorter
    /\ [][Parse => Work(stack') < Work(stack)]_vars

\* a fraction has parsed its numerator and denominator and is in the call on
\* what follows it, which has made a call of its own
C1_Witness ==
    /\ Len(stack) >= 3
    /\ stack[1].rule = FRAC
    /\ Len(stack[1].got) = 2
    /\ stack[2].rule # 0
    /\ stack[2].todo = <<>>

----------------------------------------------------------------------------
(* C2  Priority.  Every invocation takes the branch of the first           *)
(* recognizer, in the order 1..12, whose pattern matches at the start of   *)
(* its string, whatever later recognizers match as well, and the first     *)
(* node of the returned tree is the node of that recognizer.               *)

\* the recognizers whose pattern matches at the start of expr
Matching(expr) == {k \in FUNC..SKIP : RuleMatches(k, expr)}

FirstMatching(expr) == Min(Matching(expr))

\* the value of begChr of a Delimited node
BegChrOf(d) == d.kids[1].kids[1].text

\* nodes starts with what recognizer k emits for expr
HeadIs(k, expr, nodes) ==
    IF k = SKIP
    THEN nodes = ParseExpr(Drop(expr, 1))
    ELSE /\ nodes # <<>>
         /\ CASE k = FUNC ->
                   /\ Len(nodes) >= 2
                   /\ nodes[1].tag = "r"
                   /\ \E j \in 1..Len(FuncNames) : nodes[1].text = FuncNames[j]
                   /\ nodes[2].tag = "d"
              [] k = PAREN ->
                   \/ nodes[1].tag = "d" /\ BegChrOf(nodes[1]) = <<"(">>
                   \/ nodes[1] = math_run(<<"(">>, "default")
              [] k = MATRIX ->
                   nodes[1].tag = "d" /\ BegChrOf(nodes[1]) = <<"[">>
              [] k = CASES ->
                   nodes[1].tag = "d" /\ BegChrOf(nodes[1]) = <<"{">>
              [] k = FRAC   -> nodes[1].tag = "f"
              [] k = SUBSUP -> nodes[1].tag = "sSubSup"
              [] k = SUB    -> nodes[1].tag = "sSub"
              [] k = SUP    -> nodes[1].tag = "sSup"
              [] k = GREEK  -> nodes[1].tag = "r" /\ nodes[1].hint = "eastAsia"
              [] k = OPERATOR ->
                   nodes[1] = math_run(SubSeq(expr, 1, 1), "default")
              [] OTHER ->
                   /\ nodes[1].tag = "r" /\ nodes[1].hint = "default"
                   /\ nodes[1].text # <<>>
                   /\ StartsWith(expr, nodes[1].text)
                   /\ \A i \in 1..Len(nodes[1].text) :
                          nodes[1].text[i] \in TextChar

\* C2: the branch taken is that of the first recognizer that matches, and
\* the returned tree starts with its node
C2_FirstMatchingRecognizerWins ==
    /\ \A i \in 1..Len(stack) :
           stack[i].rule # 0 => stack[i].rule = FirstMatching(stack[i].expr)
    /\ (Returned /\ Formula # <<>>) =>
           HeadIs(FirstMatching(Formula), Formula, result.kids)

\* a formula on which the combined, the subscript and the text recognizer
\* all match has been converted
C2_Witness ==
    /\ Returned
    /\ {SUBSUP, SUB, TEXT} \subseteq Matching(Formula)
    /\ result.kids[1].tag = "sSubSup"

----------------------------------------------------------------------------
(* C3  Function calls.                                                      *)

\* the positions 1..Len(s) of a string
Pos(s) == 1..Len(s)

\* the function names that s starts with, after lead
NamesAt(s, lead) ==
    {j \in 1..Len(FuncNames) : StartsWith(s, lead \o FuncNames[j])}

\* after its first n characters s has whitespace up to position w, "(" at w,
\* a non-empty argument without ")" and ")" at position c
ArgShape(s, n, w, c) ==
    /\ n < w /\ w + 1 < c
    /\ s[w] = "("
    /\ s[c] = ")"
    /\ \A i \in (n + 1)..(w - 1) : s[i] \in Whitespace
    /\ \A i \in (w + 1)..(c - 1) : s[i] # ")"

\* a Delimited group: its properties, its content closed by a marker, its
\* own marker
Group(begChr, endChr, inner) ==
    El("d", << El("dPr", <<Val("begChr", begChr), Val("endChr", endChr), ctrl_pr>>),
               El("e", inner \o <<ctrl_pr>>),
               ctrl_pr >>)

\* what recognizer 1 is to emit for the call of the j-th function on the
\* argument between the positions w and c of s
FuncCallNodes(s, j, w, c) ==
    << math_run(FuncNames[j], "default"),
       Group(<<"(">>, <<")">>, ParseExpr(SubSeq(s, w + 1, c - 1))) >>

BareNameIsACall(s, kids) ==
    \A j \in NamesAt(s, <<>>) : \A c \in Pos(s) :
        LET w == Len(FuncNames[j]) + 1
        IN  (ArgShape(s, w - 1, w, c) /\ Strip(SubSeq(s, w + 1, c - 1)) # <<>>) =>
                /\ Len(kids) >= 2
                /\ SubSeq(kids, 1, 2) = FuncCallNodes(s, j, w, c)

\* C3 as stated: a function name without a backslash, immediately followed
\* by a parenthesized argument, gives the run of the name and a Delimited
\* group around the parsed argument
C3_BareNameIsACall == Returned => BareNameIsACall(Formula, result.kids)

BackslashNameIsACall(s, kids) ==
    /\ \A j \in NamesAt(s, <<BS>>) : \A w \in Pos(s), c \in Pos(s) :
           ArgShape(s, Len(FuncNames[j]) + 1, w, c) =>
               kids = FuncCallNodes(s, j, w, c) \o ParseExpr(Drop(s, c))
    /\ \A j \in NamesAt(s, <<>>) : \A c \in Pos(s) :
           LET w == Len(FuncNames[j]) + 1
           IN  ArgShape(s, w - 1, w, c) =>
                   /\ kids = <<math_run(FuncNames[j], "default")>>
                             \o ParseExpr(Drop(s, w - 1))
                   /\ ~IsComplex(SubSeq(s, w + 1, c - 1)) =>
                          kids[2] = math_run(<<"(">>, "default")

\* C3 amended: a backslash, a function name, optional whitespace and a
\* parenthesized non-empty argument without ")" give the run of the name, a
\* Delimited group around the parsed argument, then the parse of what
\* follows; a name without the backslash is a text run, followed by the parse
\* of the parenthesis and the rest, which starts with a literal "(" run when
\* the argument holds no backslash
C3_BackslashNameIsACall == Returned => BackslashNameIsACall(Formula, result.kids)

SpacedCall(s, kids) ==
    \E j \in NamesAt(s, <<BS>>) : \E w \in Pos(s), c \in Pos(s) :
        /\ ArgShape(s, Len(FuncNames[j]) + 1, w, c)
        /\ w > Len(FuncNames[j]) + 2
        /\ Len(kids) = 2
        /\ Len(kids[2].kids[2].kids) >= 3

\* a call with a backslash, whitespace before the parenthesis and an argument
\* of several nodes has been converted
C3_Witness == Returned /\ SpacedCall(Formula, result.kids)

----------------------------------------------------------------------------
(* C4  Control-properties markers.  In every returned tree each composite  *)
(* node and each matrix cell has a marker as its last child, and in no     *)
(* node sequence does a marker stand before or between content nodes.      *)

\* the nodes of the tree under n, n included
RECURSIVE Nodes(_)
Nodes(n) == {n} \cup UNION {Nodes(n.kids[i]) : i \in 1..Len(n.kids)}

\* Fraction, Sub, Sup, SubSup, Delimited, Matrix
Composite == {"f", "sSub", "sSup", "sSubSup", "d", "m"}

\* the elements whose children are a node sequence: the Equation, the
\* content of a group or a cell, a numerator, a denominator
NodeSequence == {"oMath", "e", "num", "den"}

IsMarker(n) == n.tag = "ctrlPr"

EndsWithMarker(n) == n.kids # <<>> /\ IsMarker(n.kids[Len(n.kids)])

MarkersOnlyLast(n) == \A i \in 1..Len(n.kids) : IsMarker(n.kids[i]) => i = Len(n.kids)

WellMarked(n) ==
    /\ n.tag \in Composite => EndsWithMarker(n)
    /\ n.tag = "mr" => \A i \in 1..Len(n.kids) : EndsWithMarker(n.kids[i])
    /\ n.tag \in NodeSequence => MarkersOnlyLast(n)

\* C4: every node of a returned tree has its markers where they belong
C4_MarkersCloseComposites ==
    Returned => \A n \in Nodes(result) : WellMarked(n)

----------------------------------------------------------------------------
(* C5  Blank input.  When the input is empty, or blank once one enclosing  *)
(* delimiter pair is stripped, convert() returns no Equation at all.       *)

\* C5: blank input, with or without a delimiter pair, gives the absent result
C5_BlankGivesNoEquation ==
    (pc = "done" /\ Formula = <<>>) => result = None

----------------------------------------------------------------------------
(* C6  Operator characters.  An invocation whose string begins with one of *)
(* = + - * / ( ) [ ] { } , ; : or a space, on which none of the            *)
(* recognizers 1..9 matches, takes the operator branch on that very        *)
(* character, a space between two tokens included.                         *)

\* an invocation that has made its choice: it has dispatched, or it is about
\* to return on a blank string
Decided(f) == f.rule # 0 \/ f.expr = <<>>

BeginsWithOperatorChar(str) ==
    /\ str # <<>>
    /\ str[1] \in OperatorChars
    /\ Matching(str) \cap (FUNC..GREEK) = {}

\* C6: an invocation on a string that begins with an operator character or a
\* space, which no recognizer 1..9 matches, emits the run of that character
C6_OperatorCharGivesRun ==
    \A i \in 1..Len(stack) :
        (Decided(stack[i]) /\ BeginsWithOperatorChar(stack[i].arg)) =>
            /\ stack[i].rule = OPERATOR
            /\ stack[i].expr[1] = stack[i].arg[1]

----------------------------------------------------------------------------
(* C7  Fractions.  \frac{A}{B}, A and B being non-blank and their braces   *)
(* balanced, gives a Fraction whose numerator is the parse of A and whose  *)
(* denominator is the parse of B.                                          *)

Count(s, c, from, to) == Cardinality({i \in from..to : s[i] = c})

\* the position of the "}" that closes the "{" at position open, or 0
Closing(s, open) ==
    LET C == {c \in (open + 1)..Len(s) :
                /\ s[c] = "}"
                /\ Count(s, "{", open, c) = Count(s, "}", open, c)}
    IN  IF C = {} THEN 0 ELSE Min(C)

FracOpen == <<BS, "f", "r", "a", "c", "{">>

\* the child of n with the given tag
Child(n, tag) == (SelectSeq(n.kids, LAMBDA k : k.tag = tag))[1]

HasChild(n, tag) == \E i \in 1..Len(n.kids) : n.kids[i].tag = tag

\* node is the Fraction of the texts A and B
IsFractionOf(node, A, B) ==
    /\ node.tag = "f"
    /\ HasChild(node, "num") /\ HasChild(node, "den")
    /\ Child(node, "num").kids = ParseExpr(A) \o <<ctrl_pr>>
    /\ Child(node, "den").kids = ParseExpr(B) \o <<ctrl_pr>>

FractionParsed(s, kids) ==
    LET a == Closing(s, Len(FracOpen))
        b == Closing(s, a + 1)
        A == SubSeq(s, Len(FracOpen) + 1, a - 1)
        B == SubSeq(s, a + 2, b - 1)
    IN  (/\ StartsWith(s, FracOpen)
         /\ a > 0 /\ a < Len(s) /\ s[a + 1] = "{" /\ b > 0
         /\ Strip(A) # <<>> /\ Strip(B) # <<>>) =>
            /\ kids # <<>>
            /\ IsFractionOf(kids[1], A, B)

\* C7: a fraction of any two operands, braced ones included, is parsed into
\* the Fraction of the parses of its operands
C7_FractionOfAnyOperands == Returned => FractionParsed(Formula, result.kids)

----------------------------------------------------------------------------
(* C8  Unmapped macros.                                                    *)

\* s is a backslash and a name of letters that is not in the Greek table,
\* and none of the recognizers 1..8 matches s
UnmappedMacro(s) ==
    /\ MacroAt(s, 1).ok
    /\ ~InGreekMap(MacroAt(s, 1).g)
    /\ Matching(s) \cap (FUNC..SUP) = {}

\* the texts of the runs of the tree under n, from left to right
RECURSIVE RunText(_)
RunText(n) ==
    IF n.tag = "r"
    THEN n.text
    ELSE Flatten([i \in 1..Len(n.kids) |-> RunText(n.kids[i])])

HasGlyphRun(n) == \E r \in Nodes(n) : r.tag = "r" /\ r.hint = "eastAsia"

TextRunAt(s, at) == SubSeq(s, at, SpanEnd(s, TextChar, at) - 1)

----------------------------------------------------------------------------
(* C9  Recursion depth.                                                    *)

\* the depth of the brackets ( and { around position i of s
DepthAt(s, i) ==
    Count(s, "(", 1, i) + Count(s, "{", 1, i)
    - Count(s, ")", 1, i) - Count(s, "}", 1, i)

\* the syntactic nesting depth of s: no parenthesis, fraction, matrix or
\* cases block nests deeper than the brackets of s do
NestingDepth(s) == Max({0} \cup {DepthAt(s, i) : i \in 1..Len(s)})

\* C9 as stated: there are never more active invocations than one for the
\* top level and one for each level of nesting
C9_DepthIsNestingDepth ==
    pc = "parsing" => Len(stack) <= 1 + NestingDepth(Formula)

\* the characters that are a token of their own wherever they stand: the
\* operator characters that open no parenthesis, and characters no
\* recognizer knows
OwnToken == (OperatorChars \ {"(", " "}) \cup {"#"}

Flat(s) == \A i \in 1..Len(s) : s[i] \in OwnToken

\* C9 amended: the depth grows with the number of sibling tokens, since what
\* follows a token is parsed by a call from the invocation that parsed the
\* token: in a sequence of one-character tokens the invocation at depth d
\* works on the input from its d-th token on.  The depth never exceeds the
\* number of characters of the formula.
C9_DepthGrowsWithSiblings ==
    pc = "parsing" =>
        /\ Len(stack) <= Max({1, Len(Formula)})
        /\ Flat(Formula) =>
               \A d \in 1..Len(stack) : stack[d].arg = Drop(Formula, d - 1)

\* the invocation on the last of at least three one-character tokens, at
\* nesting depth 0
C9_Witness ==
    /\ pc = "parsing"
    /\ Flat(Formula)
    /\ NestingDepth(Formula) = 0
    /\ Len(stack) >= 3
    /\ Len(stack) = Len(Formula)

----------------------------------------------------------------------------
(* C10  Depth cap.  The number of active invocations of _parse_expr never  *)
(* exceeds a fixed cap.                                                    *)

\* the cap, scaled to the formulas of Inputs
DepthCap == 4

\* C10: the depth of the recursion stays within the cap
C10_DepthIsCapped == Len(stack) <= DepthCap

----------------------------------------------------------------------------
(* C11  Bare parentheses.                                                  *)

\* s starts with "(", a non-empty text without ")" and ")" at position c
OpensGroup(s, c) ==
    /\ s # <<>> /\ s[1] = "("
    /\ 2 < c /\ s[c] = ")"
    /\ \A i \in 2..(c - 1) : s[i] # ")"

HoldsBackslash(text) == \E i \in 1..Len(text) : text[i] = BS

GroupParsed(s, kids) ==
    \A c \in Pos(s) :
        OpensGroup(s, c) =>
            LET inner == SubSeq(s, 2, c - 1)
                rest == ParseExpr(Drop(s, c))
            IN  IF HoldsBackslash(inner)
                THEN kids = <<Group(<<"(">>, <<")">>, ParseExpr(inner))>> \o rest
                ELSE kids = <<math_run(<<"(">>, "default")>> \o ParseExpr(inner)
                            \o <<math_run(<<")">>, "default")>> \o rest

\* C11: a parenthesized group at the start of the formula gives a Delimited
\* node around the parse of its inner text exactly when the inner text holds
\* a backslash, and otherwise a "(" run, the nodes of the inner text in the
\* parent sequence and a ")" run; the parse of what follows comes after
C11_GroupWrappedIffBackslash == Returned => GroupParsed(Formula, result.kids)

\* a group with a backslash, wrapped, and followed by further nodes
C11_Witness ==
    /\ Returned
    /\ \E c \in Pos(Formula) :
           OpensGroup(Formula, c) /\ HoldsBackslash(SubSeq(Formula, 2, c - 1))
    /\ Len(result.kids) >= 2
    /\ result.kids[1].tag = "d"

\* a group without a backslash, flattened between its two runs
C11_WitnessFlat ==
    /\ Returned
    /\ \E c \in Pos(Formula) :
           OpensGroup(Formula, c) /\ ~HoldsBackslash(SubSeq(Formula, 2, c - 1))
    /\ Len(result.kids) >= 4

----------------------------------------------------------------------------
(* C12  Font hints.                                                        *)

\* the keys of the Greek table and the glyph of a key
Keys == {p[1] : p \in greek_table}

GlyphOf(key) == (CHOOSE p \in greek_table : p[1] = key)[2]

\* the run of a captured identifier: the glyph of a key with the eastAsia
\* hint, any other text as it stands with the default hint
RunOf(v) ==
    IF v \in Keys
    THEN [tag |-> "r", text |-> GlyphOf(v), hint |-> "eastAsia", kids |-> <<>>]
    ELSE [tag |-> "r", text |-> v, hint |-> "default", kids |-> <<>>]

OccursIn(t, s) == \E i \in 1..(Len(s) + 1) : StartsAt(s, t, i)

\* a run of the tree for the formula s: an eastAsia run holds the glyph of a
\* key that stands in s, a default run holds text of s as it stands in s, or
\* is the one-space run between the rows of a cases block
RunHinted(r, s) ==
    \/ /\ r.hint = "eastAsia"
       /\ \E key \in Keys : r.text = GlyphOf(key) /\ OccursIn(key, s)
    \/ /\ r.hint = "default"
       /\ r.text # <<>>
       /\ OccursIn(r.text, s) \/ r.text = <<" ">>

\* part is a child of node that holds the run of v and a marker
PartIs(node, part, v) ==
    /\ HasChild(node, part)
    /\ Child(node, part).kids = <<RunOf(v), ctrl_pr>>

\* the first node of kids is what the script and Greek recognizers are to
\* emit for their captures
HeadHinted(s, kids) ==
    LET k == Recognizer(s)
    IN  /\ k = SUBSUP =>
              LET g == CombinedMatch(s).g
              IN  /\ kids[1].tag = "sSubSup"
                  /\ PartIs(kids[1], "e", g[1])
                  /\ PartIs(kids[1], "sub", g[2])
                  /\ PartIs(kids[1], "sup", g[3])
        /\ k = SUB =>
              LET g == SubMatch(s).g
              IN  /\ kids[1].tag = "sSub"
                  /\ PartIs(kids[1], "e", g[1])
                  /\ PartIs(kids[1], "sub", g[2])
        /\ k = SUP =>
              LET g == SupMatch(s).g
              IN  /\ kids[1].tag = "sSup"
                  /\ PartIs(kids[1], "e", g[1])
                  /\ PartIs(kids[1], "sup", g[2])
        /\ k = GREEK => kids[1] = RunOf(GreekMatch(s).g[1])

OmegaExample == <<BS, "o", "m", "e", "g", "a", "_", "e", "^", "*">>

\* \omega_e^* gives SubSup{base omega eastAsia, sub e default, sup * default}
OmegaParsed(s, kids) ==
    s = OmegaExample =>
        /\ Len(kids) = 1
        /\ Child(kids[1], "e").kids[1] =
               [tag |-> "r", text |-> <<"ω">>, hint |-> "eastAsia", kids |-> <<>>]
        /\ Child(kids[1], "sub").kids[1] =
               [tag |-> "r", text |-> <<"e">>, hint |-> "default", kids |-> <<>>]
        /\ Child(kids[1], "sup").kids[1] =
               [tag |-> "r", text |-> <<"*">>, hint |-> "default", kids |-> <<>>]

----------------------------------------------------------------------------
(* C13  Braced and unbraced scripts.                                       *)

\* s is b_s^t followed by anything: one letter or digit, its one-character
\* subscript, its one-character superscript (a letter, a digit or *)
IsUnbraced(s) ==
    /\ Len(s) >= 5
    /\ s[1] \in AlNum /\ s[2] = "_" /\ s[3] \in AlNum
    /\ s[4] = "^" /\ s[5] \in AlNumStar

\* s is b_{s}^{t} followed by anything
IsBraced(s) ==
    /\ Len(s) >= 9
    /\ s[1] \in AlNum /\ s[2] = "_" /\ s[3] = "{" /\ s[4] \in AlNum /\ s[5] = "}"
    /\ s[6] = "^" /\ s[7] = "{" /\ s[8] \in AlNumStar /\ s[9] = "}"

\* the other spelling of the same script
Brace(s) ==
    <<s[1], "_", "{", s[3], "}", "^", "{", s[5], "}">> \o Drop(s, 5)

Unbrace(s) == <<s[1], "_", s[4], "^", s[8]>> \o Drop(s, 9)

SameAsOtherSpelling(s, kids) ==
    /\ IsBraced(s) => kids = ParseExpr(Unbrace(s))
    /\ IsUnbraced(s) => kids = ParseExpr(Brace(s))
    /\ (IsBraced(s) \/ IsUnbraced(s)) => kids[1].tag = "sSubSup"

\* C13: b_s^t and b_{s}^{t}, followed by the same text, give the same tree,
\* which starts with a SubSup node
C13_BracesMakeNoDifference == Returned => SameAsOtherSpelling(Formula, result.kids)

\* the braced spelling, followed by more, has been converted
C13_Witness ==
    /\ Returned
    /\ IsBraced(Formula)
    /\ Len(result.kids) >= 2

----------------------------------------------------------------------------
(* C14  Matrices.                                                          *)

\* s opens with begin and holds end after it
HasEnv(s, begin, end) ==
    StartsWith(s, begin) /\ FindSub(s, end, Len(begin) + 1) > 0

\* the text between begin and the first end after it
EnvBody(s, begin, end) ==
    SubSeq(s, Len(begin) + 1, FindSub(s, end, Len(begin) + 1) - 1)

\* the text after that end
EnvRest(s, begin, end) ==
    Drop(s, FindSub(s, end, Len(begin) + 1) + Len(end) - 1)

\* the segments of the body split on the row separator, in source order
Segments(body) == Split(body, <<BS, BS>>)

NonBlank(texts) == SelectSeq(texts, LAMBDA t : Strip(t) # <<>>)

\* the matrix cell of a cell text
CellOf(text) == El("e", ParseExpr(text) \o <<ctrl_pr>>)

\* the matrix row of a row text: its segments split on "&", in source order
RowOf(row) ==
    LET cells == Split(row, <<"&">>)
    IN  El("mr", [c \in 1..Len(cells) |-> CellOf(cells[c])])

\* node is a Delimited [ ] around one Matrix with the given rows and one
\* column definition
IsMatrixOf(node, rows) ==
    /\ node.tag = "d"
    /\ node.kids[1] = El("dPr", <<Val("begChr", <<"[">>), Val("endChr", <<"]">>), ctrl_pr>>)
    /\ Len(node.kids[2].kids) = 2
    /\ LET m == node.kids[2].kids[1]
       IN  /\ m.tag = "m"
           /\ Len(m.kids) = 1 + Len(rows)
           /\ m.kids[1].tag = "mPr"
           /\ Len(Child(m.kids[1], "mcs").kids) = 1
           /\ \A r \in 1..Len(rows) : m.kids[r + 1] = RowOf(rows[r])

\* C14 as stated: the rows of the Matrix are the segments of the body
C14_RowsAreSegments ==
    (Returned /\ HasEnv(Formula, BeginBmatrix, EndBmatrix)) =>
        IsMatrixOf(result.kids[1], Segments(EnvBody(Formula, BeginBmatrix, EndBmatrix)))

\* C14 amended: the rows of the Matrix are the segments of the body that are
\* not blank, in source order; the cells of a row are its segments split on
\* "&", blank ones included, each holding the parse of its text; there is one
\* column definition whatever the number of columns, and the parse of what
\* follows the matrix comes after the Delimited node
C14_RowsAreNonBlankSegments ==
    (Returned /\ HasEnv(Formula, BeginBmatrix, EndBmatrix)) =>
        /\ IsMatrixOf(result.kids[1],
                      NonBlank(Segments(EnvBody(Formula, BeginBmatrix, EndBmatrix))))
        /\ Tail(result.kids) = ParseExpr(EnvRest(Formula, BeginBmatrix, EndBmatrix))

\* the matrix a&b\\c&d\\ has been converted: two rows of two cells, and a
\* blank segment after the last separator
C14_Witness ==
    /\ Returned
    /\ Formula = BeginBmatrix \o <<"a", "&", "b", BS, BS, "c", "&", "d", BS, BS>>
                 \o EndBmatrix
    /\ Len(result.kids[1].kids[2].kids[1].kids) = 3

----------------------------------------------------------------------------
(* C15  Cases.                                                             *)

\* the text of a row before its first "&"
BeforeAmp(row) ==
    IF FindChar(row, "&", 1) > 0 THEN SubSeq(row, 1, FindChar(row, "&", 1) - 1) ELSE row

\* the parses of the texts before "&" of the rows, one after the other
LeftParses(rows) == Flatten([r \in 1..Len(rows) |-> ParseExpr(BeforeAmp(rows[r]))])

\* the same with a one-space run before every row but the first
LeftParsesSpaced(rows) ==
    Flatten([r \in 1..Len(rows) |->
                (IF r > 1 THEN <<math_run(<<" ">>, "default")>> ELSE <<>>)
                \o ParseExpr(BeforeAmp(rows[r]))])

\* node is a Delimited with open glyph { and an empty close glyph around inner
IsCasesOf(node, inner) ==
    /\ node.tag = "d"
    /\ node.kids[1] = El("dPr", <<Val("begChr", <<"{">>), Val("endChr", <<>>), ctrl_pr>>)
    /\ node.kids[2] = El("e", inner \o <<ctrl_pr>>)
    /\ node.kids[3] = ctrl_pr

\* C15 as stated: the inner sequence holds only the parses of the texts before
\* "&" of the rows
C15_InnerHoldsOnlyLeftParses ==
    (Returned /\ HasEnv(Formula, BeginCases, EndCases)) =>
        IsCasesOf(result.kids[1], LeftParses(Segments(EnvBody(Formula, BeginCases, EndCases))))

\* C15 amended: the inner sequence holds, for each non-blank row in source
\* order, the parse of the text before the row's first "&", with a one-space
\* run before every such row but the first; the Delimited node is the same
\* whatever stands after the "&" of a row, and the parse of what follows the
\* block comes after it
C15_InnerHoldsLeftParsesAndSpaces ==
    (Returned /\ HasEnv(Formula, BeginCases, EndCases)) =>
        /\ IsCasesOf(result.kids[1],
                     LeftParsesSpaced(NonBlank(Segments(EnvBody(Formula, BeginCases, EndCases)))))
        /\ Tail(result.kids) = ParseExpr(EnvRest(Formula, BeginCases, EndCases))

\* the block a&b\\c&d has been converted: a, a space, c, and neither b nor d
C15_Witness ==
    /\ Returned
    /\ Formula = BeginCases \o <<"a", "&", "b", BS, BS, "c", "&", "d">> \o EndCases \o <<"+">>
    /\ RunText(result.kids[1]) = <<"a", " ", "c">>

----------------------------------------------------------------------------
(* C16  The Greek symbol table.                                            *)

LowercaseKeys == {k \in Keys : k[1] \in Lower}

UppercaseKeys == {k \in Keys : k[1] \in Upper}

\* the table maps nLower lowercase and nUpper uppercase macro names, each to
\* one glyph of a single character
TableHolds(nLower, nUpper) ==
    /\ Cardinality(LowercaseKeys) = nLower
    /\ Cardinality(UppercaseKeys) = nUpper
    /\ Keys = LowercaseKeys \cup UppercaseKeys
    /\ \A k \in Keys : \A i \in 2..Len(k) : k[i] \in Lower
    /\ Cardinality(greek_table) = Cardinality(Keys)
    /\ \A p \in greek_table : Len(p[2]) = 1

\* s is a macro that only the Greek branch or the fallback can take
LoneMacro(s) == MacroAt(s, 1).ok /\ Matching(s) \cap (FUNC..SUP) = {}

\* the lookup is exact: the macro gives the glyph run of the table when its
\* name, as written, is a key, and no glyph run when it is not
LookupIsExact(s, kids) ==
    LET name == MacroAt(s, 1).g
    IN  IF name \in Keys
        THEN kids # <<>> /\ kids[1] = RunOf(name)
        ELSE \A i \in 1..Len(kids) :
                 kids[i].tag = "r" => kids[i].hint = "default"

\* C16 as stated: 22 lowercase and 10 uppercase names
C16_TableHas22LowercaseNames ==
    (Returned /\ LoneMacro(Formula) /\ Len(Formula) = MacroAt(Formula, 1).end) =>
        /\ TableHolds(22, 10)
        /\ LookupIsExact(Formula, result.kids)

\* C16 amended: the Greek symbol table is an exact, case-sensitive mapping
\* with exactly 23 lowercase and exactly 10 uppercase macro names, each mapped
\* to one single-character glyph; a macro gets a glyph exactly when its name
\* as written is one of them
C16_TableHas23LowercaseNames ==
    (Returned /\ LoneMacro(Formula) /\ Len(Formula) = MacroAt(Formula, 1).end) =>
        /\ TableHolds(23, 10)
        /\ LookupIsExact(Formula, result.kids)

\* \Omega has been converted to the glyph of the uppercase name
C16_Witness ==
    /\ Returned
    /\ Formula = <<BS, "O", "m", "e", "g", "a">>
    /\ result.kids = <<RunOf(<<"O", "m", "e", "g", "a">>)>>
    /\ result.kids[1].text = <<"Ω">>

----------------------------------------------------------------------------
(* C17  The fallback.                                                      *)

\* no recognizer 1-11 matches expr
NoneMatches(expr) == Matching(expr) \cap (FUNC..TEXT) = {}

\* the invocation on top is about to choose its branch, and no recognizer
\* 1-11 matches its string
AtUnknown ==
    /\ pc = "parsing"
    /\ Top.rule = 0
    /\ Top.expr # <<>>
    /\ NoneMatches(Top.expr)

\* the step of the fallback: the invocation goes on with one call, on its
\* string without the first character, if anything is left of it; nothing
\* else changes and convert() has not returned
DropsFirst ==
    /\ pc' = "parsing"
    /\ Len(stack') = Len(stack)
    /\ \A i \in 1..(Len(stack) - 1) : stack'[i] = stack[i]
    /\ stack'[Len(stack)].expr = Top.expr
    /\ stack'[Len(stack)].rule = SKIP
    /\ stack'[Len(stack)].got = <<>>
    /\ stack'[Len(stack)].todo =
           IF Len(Top.expr) > 1 THEN <<SubSeq(Top.expr, 2, Len(Top.expr))>> ELSE <<>>
    /\ UNCHANGED <<latex, result>>

\* an invocation that took the fallback makes its call on the whole rest, and
\* what convert() returns for a formula that no recognizer matches is the
\* parse of the formula without its first character
RestIsParsed ==
    /\ \A i \in 1..Len(stack) :
           (stack[i].rule # 0 /\ NoneMatches(stack[i].expr)) =>
               /\ stack[i].rule = SKIP
               /\ \A j \in 1..Len(stack[i].todo) :
                      stack[i].todo[j] = Drop(stack[i].expr, 1)
               /\ Len(stack[i].todo) + Len(stack[i].got) <= 1
               /\ i < Len(stack) => stack[i + 1].arg = Drop(stack[i].expr, 1)
    /\ (Returned /\ NoneMatches(Formula)) =>
           result.kids = ParseExpr(Drop(Formula, 1))

\* C17: when no recognizer 1-11 matches the string of an invocation, the only
\* step is to drop its first character and go on with the rest; the parse
\* does not stop there, and nothing but that character is lost
C17_UnknownCharacterIsDropped ==
    /\ []RestIsParsed
    /\ [][AtUnknown => DropsFirst]_vars

\* #x+ has been converted: the # is gone, x and + are there
C17_Witness ==
    /\ Returned
    /\ Formula = <<"#", "x", "+">>
    /\ NoneMatches(Formula)
    /\ result.kids = ParseExpr(<<"x", "+">>)
    /\ RunText(result) = <<"x", "+">>

----------------------------------------------------------------------------
(* C18  The delimiter pair.                                                *)

\* the delimiters a formula may be wrapped in: none, $ and $$
Delimiters == {<<>>, <<"$">>, <<"$", "$">>}

NoDollar(s) == \A i \in 1..Len(s) : s[i] # "$"

\* l without the first and the last n characters
Inside(l, n) == SubSeq(l, n + 1, Len(l) - n)

\* l is d s d for a non-blank text s without "$"
WrappedIn(l, d) ==
    /\ Len(l) >= 2 * Len(d)
    /\ StartsWith(l, d) /\ EndsWith(l, d)
    /\ NoDollar(Inside(l, Len(d)))
    /\ Strip(Inside(l, Len(d))) # <<>>

\* the tree of the formula text s, whatever it is wrapped in
TreeOf(s) == El("oMath", ParseExpr(s))

\* C18: for a non-blank text s without "$", convert(s), convert("$" s "$") and
\* convert("$$" s "$$") return the same tree, the parse of s
C18_DelimiterPairIsStripped ==
    pc = "done" =>
        \A d \in Delimiters :
            WrappedIn(latex, d) => result = TreeOf(Inside(latex, Len(d)))

\* $$x+$$ and $x+$ have been converted to the tree of x+
C18_Witness ==
    /\ pc = "done"
    /\ latex \in { <<"$", "$", "x", "+", "$", "$">>, <<"$", "x", "+", "$">> }
    /\ result = TreeOf(<<"x", "+">>)
    /\ Len(result.kids) = 2

----------------------------------------------------------------------------
(* C19  convert() as a function of its input.                              *)

\* the calls of convert() that have returned, the last one included
ReturnedCalls ==
    IF pc = "done"
    THEN Append(history, [self |-> conv, latex |-> latex, result |-> result])
    ELSE history

\* any two calls with the same string returned equal trees, whichever
\* instances they were made on and whatever was called between them
SameStringSameTree ==
    \A j, k \in 1..Len(ReturnedCalls) :
        ReturnedCalls[j].latex = ReturnedCalls[k].latex => ReturnedCalls[j].result = ReturnedCalls[k].result

\* the Greek table of every converter is the one it was constructed with
TablesAsConstructed == greek_maps = [i \in Instances |-> greek_table]

\* C19: two calls of convert() with the same string return equal trees, on
\* the same or on different instances and whatever other calls are made
\* before or between them, and no step of a call changes the Greek table of
\* any converter
C19_ConvertIsAFunctionOfItsInput ==
    /\ [](SameStringSameTree /\ TablesAsConstructed)
    /\ [][greek_maps' = greek_maps]_vars

\* a formula with a Greek name has been converted on one instance, another
\* formula after it, and the first formula again on the other instance, with
\* the same tree
C19_Witness ==
    /\ pc = "done"
    /\ Len(history) = 2
    /\ history[1].latex = latex
    /\ history[2].latex # latex
    /\ history[1].self # conv
    /\ result # None
    /\ history[1].result = result
    /\ HasGlyphRun(result)

----------------------------------------------------------------------------
(* C20  Paragraph IDs.                                                     *)

\* the value of a hexadecimal digit
DigitValue(c) ==
    CHOOSE v \in 0..15 : UpperDigit(HexDigits[v + 1]) = c

\* int(s, 16)
RECURSIVE HexValue(_)
HexValue(s) ==
    IF s = <<>>
    THEN 0
    ELSE 16 * HexValue(SubSeq(s, 1, Len(s) - 1)) + DigitValue(s[Len(s)])

\* the IDs of instance i rise by one per call from 0x10000000, as numbers and
\* as the eight uppercase hexadecimal digits they are written with
RiseByOne(i) ==
    \A k \in 1..Len(issued[i]) :
        /\ Len(issued[i][k]) = 8
        /\ HexValue(issued[i][k]) = FirstParaId + k - 1
        /\ k > 1 => HexValue(issued[i][k]) = HexValue(issued[i][k - 1]) + 1

PairwiseDistinct(i) ==
    \A j, k \in 1..Len(issued[i]) : j # k => issued[i][j] # issued[i][k]

\* the counter of instance i stands at the first ID not handed out
CounterFollows(i) == para_id_counter[i] = FirstParaId + Len(issued[i])

\* a step that hands out IDs on one instance leaves every other instance as
\* it was
OthersUntouched ==
    \A i \in Instances :
        issued'[i] # issued[i] =>
            \A j \in Instances \ {i} :
                issued'[j] = issued[j] /\ para_id_counter'[j] = para_id_counter[j]

\* C20: the paragraph IDs an instance hands out increase by one per call of
\* _generate_para_id from 0x10000000, whatever paragraphs are created and in
\* whatever order, and are pairwise distinct; the calls on one instance change
\* nothing of any other instance
C20_ParagraphIdsRiseByOne ==
    /\ [](\A i \in Instances : RiseByOne(i) /\ PairwiseDistinct(i) /\ CounterFollows(i))
    /\ [][OthersUntouched]_vars

\* one instance has handed out three IDs, 10000000 to 10000002, the other one
\* two in the meantime, from 10000000 as well
C20_Witness ==
    /\ Len(issued["a"]) = 3
    /\ Len(issued["b"]) = 2
    /\ issued["a"][1] = <<"1", "0", "0", "0", "0", "0", "0", "0">>
    /\ issued["a"][3] = <<"1", "0", "0", "0", "0", "0", "0", "2">>
    /\ issued["b"][1] = issued["a"][1]
    /\ para_id_counter["a"] = FirstParaId + 3

----------------------------------------------------------------------------
(* C25  Scripts after a run of several characters.                         *)

ScriptChars == {"_", "^"}

\* the length of the alphanumeric run that s begins with
RunLen(s) == SpanEnd(s, AlNum, 1) - 1

\* s begins with an alphanumeric run of two or more characters that is
\* followed by "_" or "^"
LongRunThenScript(s) ==
    /\ RunLen(s) >= 2
    /\ RunLen(s) < Len(s)
    /\ s[RunLen(s) + 1] \in ScriptChars

\* s begins with a single alphanumeric character, or with a backslash macro,
\* that is followed by "_" or "^"
SingleBaseThenScript(s) ==
    \/ /\ Len(s) >= 2
       /\ s[1] \in AlNum
       /\ s[2] \in ScriptChars
    \/ /\ MacroAt(s, 1).ok
       /\ MacroAt(s, 1).end < Len(s)
       /\ s[MacroAt(s, 1).end + 1] \in ScriptChars

PlainRun(text) == [tag |-> "r", text |-> text, hint |-> "default", kids |-> <<>>]

\* an invocation takes a script branch only on a single base, and the text
\* branch on a longer run
ScriptsNeedSingleBase ==
    \A i \in 1..Len(stack) :
        stack[i].rule # 0 =>
            /\ stack[i].rule \in {SUBSUP, SUB, SUP} => SingleBaseThenScript(stack[i].expr)
            /\ LongRunThenScript(stack[i].expr) => stack[i].rule = TEXT

\* the tree of a formula that begins with a longer run and a script character:
\* the run as one run, then the parse of what follows the script character
LongRunParsed(s, kids) ==
    LET n == RunLen(s)
        after == Drop(s, n + 1)
    IN  /\ kids = <<PlainRun(SubSeq(s, 1, n))>> \o ParseExpr(after)
        /\ (after # <<>> /\ RunLen(after) = Len(after)) =>
               kids = <<PlainRun(SubSeq(s, 1, n)), PlainRun(after)>>

----------------------------------------------------------------------------
(* C26  Braced scripts.                                                    *)

BraceFree(t) == \A k \in 1..Len(t) : t[k] \notin {"{", "}"}

\* s is b_{T} or b^{T} for one alphanumeric character b and a non-empty
\* brace-free text T
BracedScript(s) ==
    /\ Len(s) >= 5
    /\ s[1] \in AlNum
    /\ s[2] \in ScriptChars
    /\ s[3] = "{"
    /\ s[Len(s)] = "}"
    /\ BraceFree(SubSeq(s, 4, Len(s) - 1))

\* the text T of such a formula
ScriptText(s) == SubSeq(s, 4, Len(s) - 1)

\* the tags of the node and of its script child
ScriptTag(c) == IF c = "_" THEN "sSub" ELSE "sSup"

ScriptChild(c) == IF c = "_" THEN "sub" ELSE "sup"

\* node is the Sub or Sup of base b whose script child holds the one run of T
IsScriptOf(node, c, b, T) ==
    /\ node.tag = ScriptTag(c)
    /\ Len(node.kids) = 4
    /\ node.kids[2] = El("e", <<RunOf(b), ctrl_pr>>)
    /\ node.kids[3].tag = ScriptChild(c)
    /\ node.kids[3].kids = <<RunOf(T), ctrl_pr>>

\* C26: the text of a braced subscript or superscript is emitted as one run
\* and is not parsed: for b_{T} and b^{T} with a brace-free text T the script
\* child holds exactly one run, whose text is T itself, or the Greek glyph when
\* T is a key of the Greek table, whatever operators, macros or scripts T holds
C26_BracedScriptIsOneRun ==
    (Returned /\ BracedScript(Formula)) =>
        /\ Len(result.kids) = 1
        /\ IsScriptOf(result.kids[1], Formula[2], <<Formula[1]>>, ScriptText(Formula))

\* x_{a^b} has been converted: the subscript is the one run a^b
C26_Witness ==
    /\ Returned
    /\ Formula = <<"x", "_", "{", "a", "^", "b", "}">>
    /\ result.kids[1].tag = "sSub"
    /\ result.kids[1].kids[3].kids = <<PlainRun(<<"a", "^", "b">>), ctrl_pr>>

----------------------------------------------------------------------------
(* replace_text_in_xml: what the call leaves in the file *)

\* old occurs in s, an empty old at every place
Occurs(s, old) == \E i \in 1..(Len(s) + 1) : StartsAt(s, old, i)

\* s read from position i on, every occurrence of old met on the way given
\* as new
RECURSIVE EveryOccurrence(_, _, _, _)
EveryOccurrence(s, old, new, i) ==
    IF i > Len(s)
    THEN IF old = <<>> THEN new ELSE <<>>
    ELSE IF old = <<>>
    THEN new \o <<s[i]>> \o EveryOccurrence(s, old, new, i + 1)
    ELSE IF StartsAt(s, old, i)
    THEN new \o EveryOccurrence(s, old, new, i + Len(old))
    ELSE <<s[i]>> \o EveryOccurrence(s, old, new, i + 1)

\* the pairs of l applied in order to the text t, n pairs counted so far
RECURSIVE Applied(_, _, _)
Applied(t, l, n) ==
    IF l = <<>>
    THEN [text |-> t, count |-> n]
    ELSE LET old == Head(l)[1]
             new == Head(l)[2]
         IN  IF Occurs(t, old)
             THEN Applied(EveryOccurrence(t, old, new, 1), Tail(l), n + 1)
             ELSE Applied(t, Tail(l), n)

\* the pairs the loop has gone through
DonePairs == SubSeq(xml.replacements, 1, Len(xml.replacements) - Len(xml.todo))

\* C22: when no old_text of the list occurs in the file, the file after the
\* call is the file before the call, character for character
C22_UnmatchedListLeavesFile ==
    (/\ xml.at = "returned"
     /\ \A i \in 1..Len(xml.replacements) :
            ~Occurs(xml.before, xml.replacements[i][1]))
        => xml.file = xml.before

\* C30: the pairs are applied in list order, each to the text the pairs
\* before it left and at every occurrence of its old_text, and the count is
\* the number of pairs whose old_text occurred when their turn came; the file
\* written and the value returned are those of the whole list
C30_PairsApplyInOrderToEveryOccurrence ==
    /\ xml.at = "loop" =>
           LET so_far == Applied(unescape(xml.before), DonePairs, 0)
           IN  /\ xml.decoded = so_far.text
               /\ xml.replacement_count = so_far.count
    /\ xml.at = "returned" =>
           LET whole == Applied(unescape(xml.before), xml.replacements, 0)
           IN  /\ xml.file = whole.text
               /\ xml.replacement_count = whole.count

\* "aba" with a -> b, then b -> c: the second pair also replaces the b's
\* the first one wrote, and each pair counts once for its occurrences
C30_Witness ==
    /\ xml.at = "returned"
    /\ xml.before = <<"a", "b", "a">>
    /\ xml.replacements = << <<<<"a">>, <<"b">>>>, <<<<"b">>, <<"c">>>> >>
    /\ xml.file = <<"c", "c", "c">>
    /\ xml.replacement_count = 2

----------------------------------------------------------------------------
(* replace_in_docx: the archive written and the temporary directory *)

\* the file entries of the template
TemplateFiles == {i \in DOMAIN docx.template : ~EndsWithSlash(docx.template[i].name)}

\* the output holds the files of the template and no other, each but
\* word/document.xml with the content it has in the template, and the
\* verification that ran found no file missing
SameFilesAsTemplate ==
    /\ {f.name : f \in docx.output} = {docx.template[i].name : i \in TemplateFiles}
    /\ \A i \in TemplateFiles :
           docx.template[i].name # document_xml =>
               [name |-> docx.template[i].name,
                content |-> docx.template[i].content] \in docx.output
    /\ docx.verified => docx.missing = {}

\* the file entries have distinct names, each a relative path without an
\* empty part, a "." or a ".."
PlainTemplate ==
    /\ \A i \in TemplateFiles : ExtractPath(docx.template[i].name) = docx.template[i].name
    /\ \A i, j \in TemplateFiles :
           docx.template[i].name = docx.template[j].name => i = j

\* C21 as stated: whatever the template and the list, an output that is
\* written holds exactly the file entries of the template, all but
\* word/document.xml unchanged, and verification reports no missing file
C21_OutputKeepsEveryTemplateFile == docx.written => SameFilesAsTemplate

\* C21, for templates whose file entries have distinct plain relative names:
\* an output that is written holds exactly the file entries of the template,
\* all but word/document.xml unchanged, and verification reports no missing
\* file
C21_OutputKeepsPlainTemplateFiles ==
    (docx.written /\ PlainTemplate) => SameFilesAsTemplate

\* a verified output of the six critical files, a further file and a
\* directory entry
C21_Witness ==
    /\ docx.at = "finished"
    /\ docx.verified
    /\ PlainTemplate
    /\ Len(docx.template) = 8
    /\ \E i \in DOMAIN docx.template : docx.template[i].name = <<"a">>
    /\ \E i \in DOMAIN docx.template : docx.template[i].name = <<"d", "">>
    /\ docx.missing = {}
    /\ docx.output # {}

\* C27: once replace_in_docx has finished, by returning True or False or by
\* an exception of one of its steps, the temporary directory does not exist
C27_TempDirIsGoneAfterTheCall ==
    docx.at = "finished" => (~docx.temp_exists /\ docx.temp = {})

\* a call that returned False after the verification failed
C27_Witness ==
    /\ docx.at = "finished"
    /\ docx.result = "False"
    /\ docx.verified
    /\ ~docx.temp_exists

----------------------------------------------------------------------------
(* ReferenceSearcher: what search and search_multi return *)

\* the reference ref is one of the work w, known by its title
Cites(ref, w) == \E j \in DOMAIN ref : ref[j] = w.title

\* the two references are of one work
SameWork(r1, r2) == \E w \in Works : Cites(r1, w) /\ Cites(r2, w)

\* no work has two entries in the list returned
EachWorkOnce ==
    \A p, q \in DOMAIN found.returned :
        p # q => ~SameWork(found.returned[p], found.returned[q])

\* every work that the search of a topic returned has an entry among the
\* merged references
NoneCollapsed ==
    \A k \in DOMAIN found.by_topic :
        \A j \in DOMAIN found.by_topic[k] :
            \E r \in DOMAIN found.all_refs :
                SameWork(found.by_topic[k][j], found.all_refs[r])

\* C23: in the list search_multi returns a work found under several topics
\* appears once, and no work is dropped for another one
C23_MergedWorksAreDistinctAndKept ==
    (found.at = "returned" /\ found.multi) => (EachWorkOnce /\ NoneCollapsed)

\* the works of the window, the first 2 * min_results of the fetched works
\* that pass the min_citations filter, that format to a non-empty string
Formattable ==
    LET passed == at_least_cited(found.fetched, found.min_citations)
    IN  {j \in DOMAIN passed : /\ j <= 2 * found.m
                               /\ default_format(passed[j], j) # <<>>}

----------------------------------------------------------------------------
(* The block scan: its progress and its tables *)

\* C28: every turn of the line loop leaves the index larger than it found
\* it, and never beyond one past the last line, so that the loop ends; this
\* whichever branch the turn takes, an unterminated fence or $$ block included
C28_EveryTurnAdvances ==
    [][(scan.at = "loop" /\ scan.i < Len(scan.lines))
           => (scan'.i > scan.i /\ scan'.i <= Len(scan.lines) + 1)]_vars

\* a fence that is never closed: one turn takes all three lines and leaves
\* the index past the end
C28_Witness ==
    /\ scan.at = "done"
    /\ Len(scan.lines) = 3
    /\ scan.lines[1] = Fence
    /\ Len(scan.made) = 1
    /\ scan.made[1].from = 0
    /\ scan.i = 4

\* the lines a..b-1 (counted from 0) are a maximal run of lines that start
\* with '|' once stripped
MaximalRun(a, b) ==
    /\ a < b
    /\ \A j \in a..(b - 1) : IsTableLine(scan.lines[j + 1])
    /\ a > 0 => ~IsTableLine(scan.lines[a])
    /\ b < Len(scan.lines) => ~IsTableLine(scan.lines[b + 1])

\* the turns that took the line of index j
TurnsOver(j) == {t \in DOMAIN scan.made : scan.made[t].from <= j /\ j < scan.made[t].to}

\* what the run a..b-1 is to give: one table, the only block of the turns
\* over its lines, when it has two lines or more, and no block at all when
\* it has one
RunGivesItsTable(a, b) ==
    LET over == UNION {TurnsOver(j) : j \in a..(b - 1)}
        blocks == Flatten([n \in 1..Len(scan.made) |->
                              IF n \in over THEN scan.made[n].blocks ELSE <<>>])
    IN  IF b - a >= 2
        THEN Len(blocks) = 1 /\ blocks[1].kind = "tbl"
        ELSE blocks = <<>>

=============================================================================
